---- MODULE Spec2Model ----
(***************************************************************************)
(* Optimistic event replication: the Server replica (server.ts) and the    *)
(* Client replica (client.ts) with their shared event model (shared.ts).   *)
(*                                                                         *)
(* Each replica is a single-threaded Effect program.  A step of the model  *)
(* is one run of a fiber between two asynchronous boundaries: the commit   *)
(* and receive bodies up to their first awaited promise, and the drain     *)
(* loop between Queue.take, the materializer promise and the callback      *)
(* promise.  Materializers and callbacks are supplied by the application;  *)
(* each invocation ends by returning or by throwing/rejecting, chosen      *)
(* nondeterministically.                                                   *)
(***************************************************************************)
EXTENDS Integers, Sequences, FiniteSets, TLC

(* ------------------------------ bounds --------------------------------- *)

\* number of server.commit calls explored
MaxServerCommits == 3
\* number of client.commit calls explored
MaxClientCommits == 2
\* number of client.receive calls explored
MaxReceives == 2
\* number of client.commit and client.receive calls explored together
MaxClientCalls == 3
\* number of commit calls explored on both replicas together
MaxCommits == 3

(* --------------------------- shared event model ------------------------ *)

\* keys of options.events
EventNames == {"increment", "decrement"}

\* a name that is not a key of options.events
UnknownName == "unknown"

\* payloads that conform to Schema.Number
NumberPayloads == {1, 2}

\* stands for a payload that is not a number (the tests' 'invalid')
NotANumber == 99

\* the clientId property is absent
NoId == "<absent>"

\* values nanoid() can return (shared.ts: 5 characters of [0-9a-z])
MintIds == {"a0000", "b0000"}

\* a clientId minted elsewhere (another client, or the submitter)
ForeignIds == {"other-client-123"}

\* property names every plain JavaScript object inherits from
\* Object.prototype; pending is a plain object, so pending[k] is a truthy
\* function for these k although k is not an entry
ProtoKeys == {"constructor"}

\* CommitEvent, shared.ts
CommitEvent(n, p, id) == [name |-> n, payload |-> p, clientId |-> id]

\* CommittedEvent, shared.ts; an absent error property is FALSE
CommittedEvent(n, p, id, seq, err) ==
    [name |-> n, payload |-> p, clientId |-> id, sequence |-> seq, error |-> err]

\* placeholder of a local variable that holds no event yet
NoEvent == CommitEvent("", 0, NoId)

\* schemaFromEvents: a union of one struct per declared kind, with the
\* literal name, the kind's payload schema and an optional string clientId
schemaFromEvents(e) ==
    /\ e.name \in EventNames
    /\ e.payload \in NumberPayloads

\* Decode with a schema that has no clientId field, which drops the key
DecodeWithoutClientId(e) == CommitEvent(e.name, e.payload, NoId)

\* Schema.decode(ctx.schema)(event) on an accepted event: the struct's
\* fields, nothing else
Decode(e) == CommitEvent(e.name, e.payload, e.clientId)

(* ------------------------------ state ---------------------------------- *)

VARIABLES
    \* Server
    sOptSequence,   \* options.sequence given to the Server constructor
    sSequence,      \* ctx.sequence
    sStatus,        \* ctx.status
    sQueue,         \* ctx.queue
    sPc,            \* position of the drain fiber
    sEvent,         \* the drain's local `event`
    sLocalSeq,      \* the drain's local `sequence`
    sMatLog,        \* materializer invocations, in order
    sMatOutcomes,   \* how each finished materializer invocation ended
    sAcks,          \* onCommited invocations, in order
    sSeqAtAck,      \* ctx.sequence at each onCommited invocation
    sAckOutcomes,   \* how each finished onCommited invocation ended
    sWarnings,      \* number of 'Server: Error processing event' warnings
    sCalls,         \* number of server.commit calls made
    sRejected,      \* number of server.commit calls that rejected
    sValidated,     \* the arguments of the server.commit calls that decoded, in order
    sForks,         \* number of drain fibers forked by server.commit
    \* Client
    cOptSequence,   \* options.sequence given to the Client constructor
    cMaterializers, \* options.materializers: the members each entry has
    cSequence,      \* ctx.sequence
    cStatus,        \* ctx.status
    cQueue,         \* ctx.queue
    cPending,       \* ctx.pending
    cPc,            \* position of the drain fiber
    cEvent,         \* the drain's local `clientEvent`
    cRecv,          \* the receive calls: position, argument, path, invocations
    cApplyLog,      \* apply invocations of the drain, in order
    cApplyOutcomes, \* how each finished apply invocation of the drain ended
    cOnCommitLog,   \* onCommit invocations, in order
    cOnCommitOutcomes, \* how each finished onCommit invocation ended
    cWarnings,      \* number of 'Client: Error processing event' warnings
    cCalls,         \* number of client.commit calls made
    cRejected,      \* number of client.commit calls that rejected
    cValidated,     \* the arguments of the client.commit calls that decoded, in order
    cForks          \* number of drain fibers forked by client.commit

serverVars == <<sOptSequence, sSequence, sStatus, sQueue, sPc, sEvent, sLocalSeq,
                sMatLog, sMatOutcomes, sAcks, sSeqAtAck, sAckOutcomes, sWarnings,
                sCalls, sRejected, sValidated, sForks>>

clientVars == <<cOptSequence, cMaterializers, cSequence, cStatus, cQueue, cPending, cPc, cEvent, cRecv,
                cApplyLog, cApplyOutcomes, cOnCommitLog, cOnCommitOutcomes,
                cWarnings, cCalls, cRejected, cValidated, cForks>>

vars == <<serverVars, clientVars>>

\* the name and payload pairs the explored calls carry
Submitted == {<<"increment", 1>>, <<"decrement", 2>>}

\* options.sequence values explored for the Server
OptSequences == {0, 5}

\* options.sequence given to the Client, a value no acknowledgement carries
ClientOptSequence == 7

\* arguments of server.commit explored
ServerCommitInputs ==
    {CommitEvent(k[1], k[2], id) : k \in Submitted, id \in {NoId} \cup ForeignIds}
    \cup {CommitEvent(UnknownName, 1, NoId), CommitEvent("increment", NotANumber, NoId)}

\* the empty pending object, Ref.make({})
EmptyPending == [k \in {} |-> NoEvent]

\* a receive call that has not been made
NoReceive ==
    [pc |-> "idle", ev |-> CommittedEvent("", 0, NoId, 0, FALSE), path |-> "none",
     outcome |-> "none", calls |-> <<>>, after |-> 0]

\* Server constructor: the refs of the layer, server.ts lines 59-75
ServerInit ==
    /\ sOptSequence \in OptSequences
    /\ sSequence = sOptSequence
    /\ sStatus = "idle"
    /\ sQueue = <<>>
    /\ sPc = "none"
    /\ sEvent = NoEvent
    /\ sLocalSeq = 0
    /\ sMatLog = <<>>
    /\ sMatOutcomes = <<>>
    /\ sAcks = <<>>
    /\ sSeqAtAck = <<>>
    /\ sAckOutcomes = <<>>
    /\ sWarnings = 0
    /\ sCalls = 0
    /\ sRejected = 0
    /\ sValidated = <<>>
    /\ sForks = 0

\* the members a materializer entry can have
Members == {"apply", "rollback"}

\* options.materializers as its type demands: every entry has both members
CompleteMaterializers == [k \in EventNames |-> Members]

\* options.materializers as the constructor takes them at run time: the
\* entry of 'decrement' may lack apply or rollback
AnyMaterializers ==
    {[CompleteMaterializers EXCEPT !["decrement"] = m] :
        m \in {Members, {"apply"}, {"rollback"}}}

\* Client constructor: the refs of the layer, client.ts lines 69-87
ClientRefs ==
    /\ cOptSequence = ClientOptSequence
    /\ cSequence = cOptSequence
    /\ cStatus = "idle"
    /\ cQueue = <<>>
    /\ cPending = EmptyPending
    /\ cPc = "none"
    /\ cEvent = NoEvent
    /\ cRecv = [i \in 1..MaxReceives |-> NoReceive]
    /\ cApplyLog = <<>>
    /\ cApplyOutcomes = <<>>
    /\ cOnCommitLog = <<>>
    /\ cOnCommitOutcomes = <<>>
    /\ cWarnings = 0
    /\ cCalls = 0
    /\ cRejected = 0
    /\ cValidated = <<>>
    /\ cForks = 0

\* a Client constructed with well-typed options
ClientInit == ClientRefs /\ cMaterializers = CompleteMaterializers

\* a Client constructed with any options the constructor lets through
ClientInitAny == ClientRefs /\ cMaterializers \in AnyMaterializers

\* the Server alone; the Client stays as constructed
ServerOnly == ServerInit /\ ClientInit

\* the Client alone; the Server stays as constructed with options.sequence = 0
ClientOnly == ClientInit /\ ServerInit /\ sOptSequence = 0

(* ------------------------------ Server --------------------------------- *)

\* the acknowledgement of a failed materialization, server.ts line 109
ErrorAck(e) == CommittedEvent(e.name, e.payload, e.clientId, -1, TRUE)

\* the acknowledgement of a successful materialization, server.ts line 118
SuccessAck(e, seq) == CommittedEvent(e.name, e.payload, e.clientId, seq, FALSE)

\* ServerCommitInvalid with the offer placed before the decode
ServerCommitInvalidEnqueuing ==
    /\ sCalls < MaxServerCommits
    /\ \E e \in ServerCommitInputs :
        /\ ~schemaFromEvents(e)
        /\ sQueue' = Append(sQueue, e)
    /\ sCalls' = sCalls + 1
    /\ sRejected' = sRejected + 1
    /\ UNCHANGED <<sOptSequence, sSequence, sStatus, sPc, sEvent, sLocalSeq, sMatLog,
                   sMatOutcomes, sAcks, sSeqAtAck, sAckOutcomes, sWarnings, sValidated,
                   sForks>>
    /\ UNCHANGED clientVars

\* Server.commit rejecting: Schema.decode fails, the rest of the body is skipped
ServerCommitInvalid ==
    /\ sCalls < MaxServerCommits
    /\ \E e \in ServerCommitInputs : ~schemaFromEvents(e)
    /\ sCalls' = sCalls + 1
    /\ sRejected' = sRejected + 1
    /\ UNCHANGED <<sOptSequence, sSequence, sStatus, sQueue, sPc, sEvent, sLocalSeq,
                   sMatLog, sMatOutcomes, sAcks, sSeqAtAck, sAckOutcomes, sWarnings,
                   sValidated, sForks>>
    /\ UNCHANGED clientVars

\* ServerCommit that waits for the drain to be between two iterations
ServerCommitAwaitingDrain ==
    /\ sCalls < MaxServerCommits
    /\ sPc \in {"none", "take"}
    /\ \E e \in ServerCommitInputs :
        /\ schemaFromEvents(e)
        /\ sQueue' = Append(sQueue, Decode(e))
        /\ sValidated' = Append(sValidated, e)
    /\ sCalls' = sCalls + 1
    /\ IF sStatus = "processing"
       THEN UNCHANGED <<sStatus, sPc, sForks>>
       ELSE /\ sStatus' = "processing"
            /\ sPc' = "take"
            /\ sForks' = sForks + 1
    /\ UNCHANGED <<sOptSequence, sSequence, sEvent, sLocalSeq, sMatLog, sMatOutcomes,
                   sAcks, sSeqAtAck, sAckOutcomes, sWarnings, sRejected>>
    /\ UNCHANGED clientVars

\* ServerCommit without the test of status: every valid commit forks a drain
ServerCommitForkingAlways ==
    /\ sCalls < MaxServerCommits
    /\ \E e \in ServerCommitInputs :
        /\ schemaFromEvents(e)
        /\ sQueue' = Append(sQueue, Decode(e))
        /\ sValidated' = Append(sValidated, e)
    /\ sCalls' = sCalls + 1
    /\ sStatus' = "processing"
    /\ sPc' = IF sStatus = "processing" THEN sPc ELSE "take"
    /\ sForks' = sForks + 1
    /\ UNCHANGED <<sOptSequence, sSequence, sEvent, sLocalSeq, sMatLog, sMatOutcomes,
                   sAcks, sSeqAtAck, sAckOutcomes, sWarnings, sRejected>>
    /\ UNCHANGED clientVars

\* Server.commit of a valid event: offer, then start the drain if idle
ServerCommit ==
    /\ sCalls < MaxServerCommits
    /\ \E e \in ServerCommitInputs :
        /\ schemaFromEvents(e)
        /\ sQueue' = Append(sQueue, Decode(e))
        /\ sValidated' = Append(sValidated, e)
    /\ sCalls' = sCalls + 1
    /\ IF sStatus = "processing"
       THEN UNCHANGED <<sStatus, sPc, sForks>>
       ELSE /\ sStatus' = "processing"
            /\ sPc' = "take"
            /\ sForks' = sForks + 1
    /\ UNCHANGED <<sOptSequence, sSequence, sEvent, sLocalSeq, sMatLog, sMatOutcomes,
                   sAcks, sSeqAtAck, sAckOutcomes, sWarnings, sRejected>>
    /\ UNCHANGED clientVars

\* ServerTake without awaiting the iteration in progress: the next event is
\* taken while a materializer or a callback is still running
ServerTakeNotAwaiting ==
    /\ sPc \in {"take", "materializer", "onCommited", "onCommitedError"}
    /\ sQueue # <<>>
    /\ sEvent' = Head(sQueue)
    /\ sQueue' = Tail(sQueue)
    /\ sMatLog' = Append(sMatLog, Head(sQueue))
    /\ sPc' = "materializer"
    /\ UNCHANGED <<sOptSequence, sSequence, sStatus, sLocalSeq, sMatOutcomes, sAcks,
                   sSeqAtAck, sAckOutcomes, sWarnings, sCalls, sRejected, sValidated,
                   sForks>>
    /\ UNCHANGED clientVars

\* ServerTake taking the most recently offered event instead of the oldest
ServerTakeNewest ==
    /\ sPc = "take"
    /\ sQueue # <<>>
    /\ sEvent' = sQueue[Len(sQueue)]
    /\ sQueue' = SubSeq(sQueue, 1, Len(sQueue) - 1)
    /\ sMatLog' = Append(sMatLog, sQueue[Len(sQueue)])
    /\ sPc' = "materializer"
    /\ UNCHANGED <<sOptSequence, sSequence, sStatus, sLocalSeq, sMatOutcomes, sAcks,
                   sSeqAtAck, sAckOutcomes, sWarnings, sCalls, sRejected, sValidated,
                   sForks>>
    /\ UNCHANGED clientVars

\* drain: Queue.take, then the materializer for event.name is invoked
ServerTake ==
    /\ sPc = "take"
    /\ sQueue # <<>>
    /\ sEvent' = Head(sQueue)
    /\ sQueue' = Tail(sQueue)
    /\ sMatLog' = Append(sMatLog, Head(sQueue))
    /\ sPc' = "materializer"
    /\ UNCHANGED <<sOptSequence, sSequence, sStatus, sLocalSeq, sMatOutcomes, sAcks,
                   sSeqAtAck, sAckOutcomes, sWarnings, sCalls, sRejected, sValidated,
                   sForks>>
    /\ UNCHANGED clientVars

\* ServerMaterializerOk with Ref.set placed before the onCommited call
ServerMaterializerOkAdvancingFirst ==
    /\ sPc = "materializer"
    /\ sMatOutcomes' = Append(sMatOutcomes, "returned")
    /\ sLocalSeq' = sSequence
    /\ sAcks' = Append(sAcks, SuccessAck(sEvent, sSequence))
    /\ sSeqAtAck' = Append(sSeqAtAck, sSequence)
    /\ sSequence' = sSequence + 1
    /\ sPc' = "onCommited"
    /\ UNCHANGED <<sOptSequence, sStatus, sQueue, sEvent, sMatLog, sAckOutcomes,
                   sWarnings, sCalls, sRejected, sValidated, sForks>>
    /\ UNCHANGED clientVars

\* the materializer promise fulfils: read sequence, invoke onCommited with it
ServerMaterializerOk ==
    /\ sPc = "materializer"
    /\ sMatOutcomes' = Append(sMatOutcomes, "returned")
    /\ sLocalSeq' = sSequence
    /\ sAcks' = Append(sAcks, SuccessAck(sEvent, sSequence))
    /\ sSeqAtAck' = Append(sSeqAtAck, sSequence)
    /\ sPc' = "onCommited"
    /\ UNCHANGED <<sOptSequence, sSequence, sStatus, sQueue, sEvent, sMatLog,
                   sAckOutcomes, sWarnings, sCalls, sRejected, sValidated, sForks>>
    /\ UNCHANGED clientVars

\* ServerMaterializerFail with a failed event taking a sequence slot
ServerMaterializerFailAdvancing ==
    /\ sPc = "materializer"
    /\ sMatOutcomes' = Append(sMatOutcomes, "threw")
    /\ sAcks' = Append(sAcks, ErrorAck(sEvent))
    /\ sSeqAtAck' = Append(sSeqAtAck, sSequence)
    /\ sSequence' = sSequence + 1
    /\ sPc' = "onCommitedError"
    /\ UNCHANGED <<sOptSequence, sStatus, sQueue, sEvent, sLocalSeq, sMatLog,
                   sAckOutcomes, sWarnings, sCalls, sRejected, sValidated, sForks>>
    /\ UNCHANGED clientVars

\* the materializer throws or rejects: tapError invokes onCommited with the
\* error acknowledgement
ServerMaterializerFail ==
    /\ sPc = "materializer"
    /\ sMatOutcomes' = Append(sMatOutcomes, "threw")
    /\ sAcks' = Append(sAcks, ErrorAck(sEvent))
    /\ sSeqAtAck' = Append(sSeqAtAck, sSequence)
    /\ sPc' = "onCommitedError"
    /\ UNCHANGED <<sOptSequence, sSequence, sStatus, sQueue, sEvent, sLocalSeq, sMatLog,
                   sAckOutcomes, sWarnings, sCalls, sRejected, sValidated, sForks>>
    /\ UNCHANGED clientVars

\* onCommited returns for a success acknowledgement: sequence <- sequence + 1
ServerOnCommitedReturn ==
    /\ sPc = "onCommited"
    /\ sAckOutcomes' = Append(sAckOutcomes, "returned")
    /\ sSequence' = sLocalSeq + 1
    /\ sPc' = "take"
    /\ UNCHANGED <<sOptSequence, sStatus, sQueue, sEvent, sLocalSeq, sMatLog,
                   sMatOutcomes, sAcks, sSeqAtAck, sWarnings, sCalls, sRejected,
                   sValidated, sForks>>
    /\ UNCHANGED clientVars

\* ServerOnCommitedThrow with the callback's rejection ending the fiber
ServerOnCommitedThrowStopping ==
    /\ sPc = "onCommited"
    /\ sAckOutcomes' = Append(sAckOutcomes, "threw")
    /\ sPc' = "dead"
    /\ UNCHANGED <<sOptSequence, sSequence, sStatus, sQueue, sEvent, sLocalSeq, sMatLog,
                   sMatOutcomes, sAcks, sSeqAtAck, sWarnings, sCalls, sRejected,
                   sValidated, sForks>>
    /\ UNCHANGED clientVars

\* onCommited throws or rejects for a success acknowledgement: catchAll
\* answers with a CommitError, which is itself a failing effect, so the
\* iteration fails before Ref.set; the outer catchAll logs the warning
ServerOnCommitedThrow ==
    /\ sPc = "onCommited"
    /\ sAckOutcomes' = Append(sAckOutcomes, "threw")
    /\ sWarnings' = sWarnings + 1
    /\ sPc' = "take"
    /\ UNCHANGED <<sOptSequence, sSequence, sStatus, sQueue, sEvent, sLocalSeq, sMatLog,
                   sMatOutcomes, sAcks, sSeqAtAck, sCalls, sRejected, sValidated,
                   sForks>>
    /\ UNCHANGED clientVars

\* ServerOnCommitedErrorReturn with the failed event taking a sequence slot
\* once its error acknowledgement has been delivered
ServerOnCommitedErrorReturnAdvancing ==
    /\ sPc = "onCommitedError"
    /\ sAckOutcomes' = Append(sAckOutcomes, "returned")
    /\ sWarnings' = sWarnings + 1
    /\ sSequence' = sSequence + 1
    /\ sPc' = "take"
    /\ UNCHANGED <<sOptSequence, sStatus, sQueue, sEvent, sLocalSeq, sMatLog,
                   sMatOutcomes, sAcks, sSeqAtAck, sCalls, sRejected, sValidated,
                   sForks>>
    /\ UNCHANGED clientVars

\* ServerOnCommitedErrorReturn with the materializer's failure recovered
\* instead of re-raised: the iteration goes on to the success acknowledgement
ServerOnCommitedErrorReturnRecovering ==
    /\ sPc = "onCommitedError"
    /\ sAckOutcomes' = Append(sAckOutcomes, "returned")
    /\ sLocalSeq' = sSequence
    /\ sAcks' = Append(sAcks, SuccessAck(sEvent, sSequence))
    /\ sSeqAtAck' = Append(sSeqAtAck, sSequence)
    /\ sPc' = "onCommited"
    /\ UNCHANGED <<sOptSequence, sSequence, sStatus, sQueue, sEvent, sMatLog,
                   sMatOutcomes, sWarnings, sCalls, sRejected, sValidated, sForks>>
    /\ UNCHANGED clientVars

\* onCommited returns for an error acknowledgement: the materializer's
\* failure becomes a MaterializerError, the outer catchAll logs the warning
ServerOnCommitedErrorReturn ==
    /\ sPc = "onCommitedError"
    /\ sAckOutcomes' = Append(sAckOutcomes, "returned")
    /\ sWarnings' = sWarnings + 1
    /\ sPc' = "take"
    /\ UNCHANGED <<sOptSequence, sSequence, sStatus, sQueue, sEvent, sLocalSeq, sMatLog,
                   sMatOutcomes, sAcks, sSeqAtAck, sCalls, sRejected, sValidated,
                   sForks>>
    /\ UNCHANGED clientVars

\* ServerOnCommitedErrorThrow with the callback's failure recovered inside
\* tapError instead of propagated: the iteration goes on to read the
\* sequence and to invoke onCommited a second time, in the success form
ServerOnCommitedErrorThrowRecovering ==
    /\ sPc = "onCommitedError"
    /\ sAckOutcomes' = Append(sAckOutcomes, "threw")
    /\ sLocalSeq' = sSequence
    /\ sAcks' = Append(sAcks, SuccessAck(sEvent, sSequence))
    /\ sSeqAtAck' = Append(sSeqAtAck, sSequence)
    /\ sPc' = "onCommited"
    /\ UNCHANGED <<sOptSequence, sSequence, sStatus, sQueue, sEvent, sMatLog,
                   sMatOutcomes, sWarnings, sCalls, sRejected, sValidated, sForks>>
    /\ UNCHANGED clientVars

\* onCommited throws for an error acknowledgement: tapError fails with the
\* callback's error, catchAll turns it into a MaterializerError all the same
ServerOnCommitedErrorThrow ==
    /\ sPc = "onCommitedError"
    /\ sAckOutcomes' = Append(sAckOutcomes, "threw")
    /\ sWarnings' = sWarnings + 1
    /\ sPc' = "take"
    /\ UNCHANGED <<sOptSequence, sSequence, sStatus, sQueue, sEvent, sLocalSeq, sMatLog,
                   sMatOutcomes, sAcks, sSeqAtAck, sCalls, sRejected, sValidated,
                   sForks>>
    /\ UNCHANGED clientVars

\* the steps of the Server replica
ServerNext ==
    \/ ServerCommitInvalid
    \/ ServerCommit
    \/ ServerTake
    \/ ServerMaterializerOk
    \/ ServerMaterializerFail
    \/ ServerOnCommitedReturn
    \/ ServerOnCommitedThrow
    \/ ServerOnCommitedErrorReturn
    \/ ServerOnCommitedErrorThrow

ServerSpec == ServerOnly /\ [][ServerNext]_vars

\* the steps of the drain fiber of the Server
ServerDrain ==
    \/ ServerTake
    \/ ServerMaterializerOk
    \/ ServerMaterializerFail
    \/ ServerOnCommitedReturn
    \/ ServerOnCommitedThrow
    \/ ServerOnCommitedErrorReturn
    \/ ServerOnCommitedErrorThrow

\* the Server with a drain fiber that the runtime keeps scheduling and with
\* materializer and callback promises that all settle
ServerFairSpec == ServerOnly /\ [][ServerNext]_vars /\ WF_vars(ServerDrain)

(* ------------------------------ Client --------------------------------- *)

\* arguments of client.commit explored
ClientCommitInputs ==
    {CommitEvent("increment", 1, NoId)}
    \cup {CommitEvent("decrement", 2, id) : id \in ForeignIds}
    \cup {CommitEvent(UnknownName, 1, NoId), CommitEvent("increment", NotANumber, NoId)}

\* arguments of client.receive explored; the type asks for a declared name
\* and any string as clientId (a value of MintIds that no pending entry
\* carries is the clientId of another client)
ReceiveInputs ==
    {CommittedEvent("decrement", 2, id, IF err THEN -1 ELSE 0, err) :
        id \in {NoId} \cup MintIds \cup ProtoKeys, err \in BOOLEAN}

\* the JavaScript test `event.clientId && pending[event.clientId]`: the
\* clientId is a non-empty string and the property read yields a truthy
\* value, which an entry does and an inherited Object.prototype member does too
InPending(pending, id) ==
    /\ id # NoId
    /\ id # ""
    /\ (id \in DOMAIN pending \/ id \in ProtoKeys)

\* ({ [clientId]: _, ...rest }) => rest
Without(pending, id) == [k \in DOMAIN pending \ {id} |-> pending[k]]

\* pending => ({ ...pending, [clientId]: clientEvent })
With(pending, id, e) ==
    [k \in DOMAIN pending \cup {id} |-> IF k = id THEN e ELSE pending[k]]

\* a materializer invocation made by receive: which one, and its argument
Call(materializer, e) == [materializer |-> materializer, ev |-> e]

\* the number of receive calls made
Received == Cardinality({i \in 1..MaxReceives : cRecv[i].pc # "idle"})

\* the receive calls are numbered in the order they are made
NextReceive(i) ==
    /\ cCalls + Received < MaxClientCalls
    /\ cRecv[i].pc = "idle"
    /\ \A j \in 1..(i - 1) : cRecv[j].pc # "idle"

\* a receive call after its first step: its position, its argument, the
\* path it took, the materializer invocations it made and the number of
\* onCommit invocations that preceded the call
Receiving(pc, c, path, calls) ==
    [pc |-> pc, ev |-> c, path |-> path, outcome |-> "none", calls |-> calls,
     after |-> Len(cOnCommitLog)]

\* Client.commit rejecting: Schema.decode fails, the rest of the body is skipped
ClientCommitInvalid ==
    /\ cCalls < MaxClientCommits
    /\ cCalls + Received < MaxClientCalls
    /\ \E e \in ClientCommitInputs : ~schemaFromEvents(e)
    /\ cCalls' = cCalls + 1
    /\ cRejected' = cRejected + 1
    /\ UNCHANGED <<cOptSequence, cMaterializers, cSequence, cStatus, cQueue, cPending,
                   cPc, cEvent, cRecv, cApplyLog, cApplyOutcomes, cOnCommitLog,
                   cOnCommitOutcomes, cWarnings, cValidated, cForks>>
    /\ UNCHANGED serverVars

\* ClientCommit offering at the front of the queue instead of the back
ClientCommitPrepending ==
    /\ cCalls < MaxClientCommits
    /\ cCalls + Received < MaxClientCalls
    /\ \E e \in ClientCommitInputs :
        /\ schemaFromEvents(e)
        /\ cQueue' = <<Decode(e)>> \o cQueue
        /\ cValidated' = Append(cValidated, e)
    /\ cCalls' = cCalls + 1
    /\ IF cStatus = "processing"
       THEN UNCHANGED <<cStatus, cPc, cForks>>
       ELSE /\ cStatus' = "processing"
            /\ cPc' = "take"
            /\ cForks' = cForks + 1
    /\ UNCHANGED <<cOptSequence, cMaterializers, cSequence, cPending, cEvent, cRecv,
                   cApplyLog, cApplyOutcomes, cOnCommitLog, cOnCommitOutcomes,
                   cWarnings, cRejected>>
    /\ UNCHANGED serverVars

\* Client.commit of a valid event: offer, then start the drain if idle
ClientCommit ==
    /\ cCalls < MaxClientCommits
    /\ cCalls + Received < MaxClientCalls
    /\ \E e \in ClientCommitInputs :
        /\ schemaFromEvents(e)
        /\ cQueue' = Append(cQueue, Decode(e))
        /\ cValidated' = Append(cValidated, e)
    /\ cCalls' = cCalls + 1
    /\ IF cStatus = "processing"
       THEN UNCHANGED <<cStatus, cPc, cForks>>
       ELSE /\ cStatus' = "processing"
            /\ cPc' = "take"
            /\ cForks' = cForks + 1
    /\ UNCHANGED <<cOptSequence, cMaterializers, cSequence, cPending, cEvent, cRecv,
                   cApplyLog, cApplyOutcomes, cOnCommitLog, cOnCommitOutcomes,
                   cWarnings, cRejected>>
    /\ UNCHANGED serverVars

\* ClientTake taking the most recently offered event instead of the oldest
ClientTakeNewest ==
    /\ cPc = "take"
    /\ cQueue # <<>>
    /\ \E clientId \in MintIds :
        LET clientEvent == [cQueue[Len(cQueue)] EXCEPT !.clientId = clientId]
        IN  /\ cEvent' = clientEvent
            /\ cApplyLog' = Append(cApplyLog, clientEvent)
    /\ cQueue' = SubSeq(cQueue, 1, Len(cQueue) - 1)
    /\ cPc' = "apply"
    /\ UNCHANGED <<cOptSequence, cMaterializers, cSequence, cStatus, cPending, cRecv,
                   cApplyOutcomes, cOnCommitLog, cOnCommitOutcomes, cWarnings, cCalls,
                   cRejected, cValidated, cForks>>
    /\ UNCHANGED serverVars

\* ClientTake minting only when the caller supplied no clientId
ClientTakeKeepingClientId ==
    /\ cPc = "take"
    /\ cQueue # <<>>
    /\ \E clientId \in MintIds :
        LET clientEvent == IF Head(cQueue).clientId # NoId
                           THEN Head(cQueue)
                           ELSE [Head(cQueue) EXCEPT !.clientId = clientId]
        IN  /\ cEvent' = clientEvent
            /\ cApplyLog' = Append(cApplyLog, clientEvent)
    /\ cQueue' = Tail(cQueue)
    /\ cPc' = "apply"
    /\ UNCHANGED <<cOptSequence, cMaterializers, cSequence, cStatus, cPending, cRecv,
                   cApplyOutcomes, cOnCommitLog, cOnCommitOutcomes, cWarnings, cCalls,
                   cRejected, cValidated, cForks>>
    /\ UNCHANGED serverVars

\* drain: Queue.take, nanoid(), then apply is invoked with clientEvent
ClientTake ==
    /\ cPc = "take"
    /\ cQueue # <<>>
    /\ \E clientId \in MintIds :
        LET clientEvent == [Head(cQueue) EXCEPT !.clientId = clientId]
        IN  /\ cEvent' = clientEvent
            /\ cApplyLog' = Append(cApplyLog, clientEvent)
    /\ cQueue' = Tail(cQueue)
    /\ cPc' = "apply"
    /\ UNCHANGED <<cOptSequence, cMaterializers, cSequence, cStatus, cPending, cRecv,
                   cApplyOutcomes, cOnCommitLog, cOnCommitOutcomes, cWarnings, cCalls,
                   cRejected, cValidated, cForks>>
    /\ UNCHANGED serverVars

\* ClientApplyOk without the Ref.update of pending: onCommit only
ClientApplyOkCallbackOnly ==
    /\ cPc = "apply"
    /\ cApplyOutcomes' = Append(cApplyOutcomes, "returned")
    /\ cOnCommitLog' = Append(cOnCommitLog, cEvent)
    /\ cPc' = "onCommit"
    /\ UNCHANGED <<cOptSequence, cMaterializers, cSequence, cStatus, cQueue, cPending,
                   cEvent, cRecv, cApplyLog, cOnCommitOutcomes, cWarnings, cCalls,
                   cRejected, cValidated, cForks>>
    /\ UNCHANGED serverVars

\* the apply promise fulfils: insert into pending, then invoke onCommit
ClientApplyOk ==
    /\ cPc = "apply"
    /\ "apply" \in cMaterializers[cEvent.name]
    /\ cApplyOutcomes' = Append(cApplyOutcomes, "returned")
    /\ cPending' = With(cPending, cEvent.clientId, cEvent)
    /\ cOnCommitLog' = Append(cOnCommitLog, cEvent)
    /\ cPc' = "onCommit"
    /\ UNCHANGED <<cOptSequence, cMaterializers, cSequence, cStatus, cQueue, cEvent,
                   cRecv, cApplyLog, cOnCommitOutcomes, cWarnings, cCalls, cRejected,
                   cValidated, cForks>>
    /\ UNCHANGED serverVars

\* ClientApplyThrow with the pending update placed before the apply call
ClientApplyThrowInserting ==
    /\ cPc = "apply"
    /\ cApplyOutcomes' = Append(cApplyOutcomes, "threw")
    /\ cPending' = With(cPending, cEvent.clientId, cEvent)
    /\ cWarnings' = cWarnings + 1
    /\ cPc' = "take"
    /\ UNCHANGED <<cOptSequence, cMaterializers, cSequence, cStatus, cQueue, cEvent,
                   cRecv, cApplyLog, cOnCommitLog, cOnCommitOutcomes, cCalls, cRejected,
                   cValidated, cForks>>
    /\ UNCHANGED serverVars

\* ClientApplyThrow without the catchAll: the failure ends the drain
ClientApplyThrowStopping ==
    /\ cPc = "apply"
    /\ cApplyOutcomes' = Append(cApplyOutcomes, "threw")
    /\ cPc' = "dead"
    /\ UNCHANGED <<cOptSequence, cMaterializers, cSequence, cStatus, cQueue, cPending,
                   cEvent, cRecv, cApplyLog, cOnCommitLog, cOnCommitOutcomes, cWarnings,
                   cCalls, cRejected, cValidated, cForks>>
    /\ UNCHANGED serverVars

\* apply throws or rejects: tryPromise fails, catchAll logs the warning and
\* the loop repeats
ClientApplyThrow ==
    /\ cPc = "apply"
    /\ cApplyOutcomes' = Append(cApplyOutcomes, "threw")
    /\ cWarnings' = cWarnings + 1
    /\ cPc' = "take"
    /\ UNCHANGED <<cOptSequence, cMaterializers, cSequence, cStatus, cQueue, cPending,
                   cEvent, cRecv, cApplyLog, cOnCommitLog, cOnCommitOutcomes, cCalls,
                   cRejected, cValidated, cForks>>
    /\ UNCHANGED serverVars

\* onCommit returns: the iteration succeeds and the loop repeats
ClientOnCommitReturn ==
    /\ cPc = "onCommit"
    /\ cOnCommitOutcomes' = Append(cOnCommitOutcomes, "returned")
    /\ cPc' = "take"
    /\ UNCHANGED <<cOptSequence, cMaterializers, cSequence, cStatus, cQueue, cPending,
                   cEvent, cRecv, cApplyLog, cApplyOutcomes, cOnCommitLog, cWarnings,
                   cCalls, cRejected, cValidated, cForks>>
    /\ UNCHANGED serverVars

\* ClientOnCommitThrow with the ending drain putting status back to 'idle',
\* so that the next commit forks a new drain
ClientOnCommitThrowResetting ==
    /\ cPc = "onCommit"
    /\ cOnCommitOutcomes' = Append(cOnCommitOutcomes, "threw")
    /\ cPc' = "none"
    /\ cStatus' = "idle"
    /\ UNCHANGED <<cOptSequence, cMaterializers, cSequence, cQueue, cPending,
                   cEvent, cRecv, cApplyLog, cApplyOutcomes, cOnCommitLog, cWarnings,
                   cCalls, cRejected, cValidated, cForks>>
    /\ UNCHANGED serverVars

\* onCommit throws or rejects: Effect.promise turns the rejection into a
\* defect; catchAll recovers failures only and repeat stops on any failure,
\* so the drain fiber ends while status stays 'processing'
ClientOnCommitThrow ==
    /\ cPc = "onCommit"
    /\ cOnCommitOutcomes' = Append(cOnCommitOutcomes, "threw")
    /\ cPc' = "dead"
    /\ UNCHANGED <<cOptSequence, cMaterializers, cSequence, cStatus, cQueue, cPending,
                   cEvent, cRecv, cApplyLog, cApplyOutcomes, cOnCommitLog, cWarnings,
                   cCalls, cRejected, cValidated, cForks>>
    /\ UNCHANGED serverVars

\* receive(c), c found in pending, c.error: rollback is invoked with c
ReceiveRollback ==
    \E i \in 1..MaxReceives, c \in ReceiveInputs :
        /\ NextReceive(i)
        /\ InPending(cPending, c.clientId)
        /\ c.error
        /\ cRecv' = [cRecv EXCEPT ![i] =
                        Receiving("rollback", c, "rollback", <<Call("rollback", c)>>)]
        /\ UNCHANGED <<cOptSequence, cMaterializers, cSequence, cStatus, cQueue,
                       cPending, cPc, cEvent, cApplyLog, cApplyOutcomes, cOnCommitLog,
                       cOnCommitOutcomes, cWarnings, cCalls, cRejected, cValidated,
                       cForks>>
        /\ UNCHANGED serverVars

\* ReceiveRetire with the update returning an empty object instead of rest
ReceiveRetireClearing ==
    \E i \in 1..MaxReceives, c \in ReceiveInputs :
        /\ NextReceive(i)
        /\ InPending(cPending, c.clientId)
        /\ ~c.error
        /\ cPending' = EmptyPending
        /\ cRecv' = [cRecv EXCEPT ![i] = Receiving("resolved", c, "retire", <<>>)]
        /\ UNCHANGED <<cOptSequence, cMaterializers, cSequence, cStatus, cQueue, cPc,
                       cEvent, cApplyLog, cApplyOutcomes, cOnCommitLog,
                       cOnCommitOutcomes, cWarnings, cCalls, cRejected, cValidated,
                       cForks>>
        /\ UNCHANGED serverVars

\* ReceiveRetire recording the sequence of the acknowledgement in
\* ctx.sequence
ReceiveRetireAdoptingSequence ==
    \E i \in 1..MaxReceives, c \in ReceiveInputs :
        /\ NextReceive(i)
        /\ InPending(cPending, c.clientId)
        /\ ~c.error
        /\ cPending' = Without(cPending, c.clientId)
        /\ cSequence' = c.sequence + 1
        /\ cRecv' = [cRecv EXCEPT ![i] = Receiving("resolved", c, "retire", <<>>)]
        /\ UNCHANGED <<cOptSequence, cMaterializers, cStatus, cQueue, cPc,
                       cEvent, cApplyLog, cApplyOutcomes, cOnCommitLog,
                       cOnCommitOutcomes, cWarnings, cCalls, cRejected, cValidated,
                       cForks>>
        /\ UNCHANGED serverVars

\* receive(c), c found in pending, no c.error: the entry is removed
ReceiveRetire ==
    \E i \in 1..MaxReceives, c \in ReceiveInputs :
        /\ NextReceive(i)
        /\ InPending(cPending, c.clientId)
        /\ ~c.error
        /\ cPending' = Without(cPending, c.clientId)
        /\ cRecv' = [cRecv EXCEPT ![i] = Receiving("resolved", c, "retire", <<>>)]
        /\ UNCHANGED <<cOptSequence, cMaterializers, cSequence, cStatus, cQueue, cPc,
                       cEvent, cApplyLog, cApplyOutcomes, cOnCommitLog,
                       cOnCommitOutcomes, cWarnings, cCalls, cRejected, cValidated,
                       cForks>>
        /\ UNCHANGED serverVars

\* receive(c), c not found in pending, c.error: return
ReceiveIgnore ==
    \E i \in 1..MaxReceives, c \in ReceiveInputs :
        /\ NextReceive(i)
        /\ ~InPending(cPending, c.clientId)
        /\ c.error
        /\ cRecv' = [cRecv EXCEPT ![i] = Receiving("resolved", c, "ignore", <<>>)]
        /\ UNCHANGED <<cOptSequence, cMaterializers, cSequence, cStatus, cQueue,
                       cPending, cPc, cEvent, cApplyLog, cApplyOutcomes, cOnCommitLog,
                       cOnCommitOutcomes, cWarnings, cCalls, cRejected, cValidated,
                       cForks>>
        /\ UNCHANGED serverVars

\* ReceiveApply without the lookup in pending: every success
\* acknowledgement may be applied
ReceiveApplyWithoutLookup ==
    \E i \in 1..MaxReceives, c \in ReceiveInputs :
        /\ NextReceive(i)
        /\ ~c.error
        /\ cRecv' = [cRecv EXCEPT ![i] = Receiving("apply", c, "apply", <<Call("apply", c)>>)]
        /\ UNCHANGED <<cOptSequence, cMaterializers, cSequence, cStatus, cQueue,
                       cPending, cPc, cEvent, cApplyLog, cApplyOutcomes, cOnCommitLog,
                       cOnCommitOutcomes, cWarnings, cCalls, cRejected, cValidated,
                       cForks>>
        /\ UNCHANGED serverVars

\* receive(c), c not found in pending, no c.error: apply is invoked with c
ReceiveApply ==
    \E i \in 1..MaxReceives, c \in ReceiveInputs :
        /\ NextReceive(i)
        /\ ~InPending(cPending, c.clientId)
        /\ ~c.error
        /\ cRecv' = [cRecv EXCEPT ![i] = Receiving("apply", c, "apply", <<Call("apply", c)>>)]
        /\ UNCHANGED <<cOptSequence, cMaterializers, cSequence, cStatus, cQueue,
                       cPending, cPc, cEvent, cApplyLog, cApplyOutcomes, cOnCommitLog,
                       cOnCommitOutcomes, cWarnings, cCalls, cRejected, cValidated,
                       cForks>>
        /\ UNCHANGED serverVars

\* ReceiveRollbackOk writing back the object read at the start of the call
\* less the entry, instead of updating the current value: the entries
\* inserted since the call was made are dropped
ReceiveRollbackOkFromSnapshot ==
    \E i \in 1..MaxReceives :
        /\ cRecv[i].pc = "rollback"
        /\ "rollback" \in cMaterializers[cRecv[i].ev.name]
        /\ LET read == {id \in DOMAIN cPending :
                            \E k \in 1..cRecv[i].after : cOnCommitLog[k].clientId = id}
           IN  cPending' = [id \in read \ {cRecv[i].ev.clientId} |-> cPending[id]]
        /\ cRecv' = [cRecv EXCEPT ![i].pc = "resolved", ![i].outcome = "returned"]
        /\ UNCHANGED <<cOptSequence, cMaterializers, cSequence, cStatus, cQueue, cPc,
                       cEvent, cApplyLog, cApplyOutcomes, cOnCommitLog,
                       cOnCommitOutcomes, cWarnings, cCalls, cRejected, cValidated,
                       cForks>>
        /\ UNCHANGED serverVars

\* the rollback promise fulfils: the entry is removed (lines 123 and 126)
\* and receive resolves
ReceiveRollbackOk ==
    \E i \in 1..MaxReceives :
        /\ cRecv[i].pc = "rollback"
        /\ "rollback" \in cMaterializers[cRecv[i].ev.name]
        /\ cPending' = Without(Without(cPending, cRecv[i].ev.clientId), cRecv[i].ev.clientId)
        /\ cRecv' = [cRecv EXCEPT ![i].pc = "resolved", ![i].outcome = "returned"]
        /\ UNCHANGED <<cOptSequence, cMaterializers, cSequence, cStatus, cQueue, cPc,
                       cEvent, cApplyLog, cApplyOutcomes, cOnCommitLog,
                       cOnCommitOutcomes, cWarnings, cCalls, cRejected, cValidated,
                       cForks>>
        /\ UNCHANGED serverVars

\* rollback throws or rejects: tryPromise fails, nothing recovers it, the
\* rest of the body is skipped and the promise of receive rejects
ReceiveRollbackThrow ==
    \E i \in 1..MaxReceives :
        /\ cRecv[i].pc = "rollback"
        /\ cRecv' = [cRecv EXCEPT ![i].pc = "rejected", ![i].outcome = "threw"]
        /\ UNCHANGED <<cOptSequence, cMaterializers, cSequence, cStatus, cQueue,
                       cPending, cPc, cEvent, cApplyLog, cApplyOutcomes, cOnCommitLog,
                       cOnCommitOutcomes, cWarnings, cCalls, cRejected, cValidated,
                       cForks>>
        /\ UNCHANGED serverVars

\* the apply promise of receive fulfils: receive resolves
ReceiveApplyOk ==
    \E i \in 1..MaxReceives :
        /\ cRecv[i].pc = "apply"
        /\ "apply" \in cMaterializers[cRecv[i].ev.name]
        /\ cRecv' = [cRecv EXCEPT ![i].pc = "resolved", ![i].outcome = "returned"]
        /\ UNCHANGED <<cOptSequence, cMaterializers, cSequence, cStatus, cQueue,
                       cPending, cPc, cEvent, cApplyLog, cApplyOutcomes, cOnCommitLog,
                       cOnCommitOutcomes, cWarnings, cCalls, cRejected, cValidated,
                       cForks>>
        /\ UNCHANGED serverVars

\* apply throws or rejects inside receive: the promise of receive rejects
ReceiveApplyThrow ==
    \E i \in 1..MaxReceives :
        /\ cRecv[i].pc = "apply"
        /\ cRecv' = [cRecv EXCEPT ![i].pc = "rejected", ![i].outcome = "threw"]
        /\ UNCHANGED <<cOptSequence, cMaterializers, cSequence, cStatus, cQueue,
                       cPending, cPc, cEvent, cApplyLog, cApplyOutcomes, cOnCommitLog,
                       cOnCommitOutcomes, cWarnings, cCalls, cRejected, cValidated,
                       cForks>>
        /\ UNCHANGED serverVars

\* the steps of the Client replica
ClientNext ==
    \/ ClientCommitInvalid
    \/ ClientCommit
    \/ ClientTake
    \/ ClientApplyOk
    \/ ClientApplyThrow
    \/ ClientOnCommitReturn
    \/ ClientOnCommitThrow
    \/ ReceiveRollback
    \/ ReceiveRetire
    \/ ReceiveIgnore
    \/ ReceiveApply
    \/ ReceiveRollbackOk
    \/ ReceiveRollbackThrow
    \/ ReceiveApplyOk
    \/ ReceiveApplyThrow

ClientSpec == ClientOnly /\ [][ClientNext]_vars

\* the steps of the drain fiber of the Client, the settling of the promises
\* it awaits included
ClientDrain ==
    \/ ClientTake
    \/ ClientApplyOk
    \/ ClientApplyThrow
    \/ ClientOnCommitReturn
    \/ ClientOnCommitThrow

\* the Client with a drain fiber that the runtime keeps scheduling and with
\* apply and onCommit promises that all settle
ClientFairSpec == ClientOnly /\ [][ClientNext]_vars /\ WF_vars(ClientDrain)

\* the Client alone, constructed with any options the constructor lets
\* through: calling a member that is missing throws a TypeError inside the
\* promise thunk, so such an invocation can only end by throwing
Constructed == ClientInitAny /\ ServerInit /\ sOptSequence = 0

ConstructSpec == Constructed /\ [][ClientNext]_vars

(* ----------------------- both replicas, commits only ------------------- *)

\* a Server and a Client side by side, not wired to each other: commit
\* calls on either one and the steps of the two drain fibers
CommitNext ==
    \/ /\ sCalls + cCalls < MaxCommits
       /\ \/ ServerCommitInvalid
          \/ ServerCommit
          \/ ClientCommitInvalid
          \/ ClientCommit
    \/ ServerTake
    \/ ServerMaterializerOk
    \/ ServerMaterializerFail
    \/ ServerOnCommitedReturn
    \/ ServerOnCommitedThrow
    \/ ServerOnCommitedErrorReturn
    \/ ServerOnCommitedErrorThrow
    \/ ClientTake
    \/ ClientApplyOk
    \/ ClientApplyThrow
    \/ ClientOnCommitReturn
    \/ ClientOnCommitThrow

CommitSpec == ClientOnly /\ [][CommitNext]_vars

(* ------------------- one Client wired to one Server -------------------- *)
(* setupIntegration of integration.test.ts: onCommit awaits                *)
(* server.commit(event), onCommited awaits client.receive(event), and the  *)
(* materializers keep one integer counter on each side.                    *)

\* what the counter materializers add: increment adds the payload,
\* decrement subtracts it; the Client's rollback subtracts the same amount
Effect(e) == IF e.name = "increment" THEN e.payload ELSE 0 - e.payload

\* serverState.counter after the first n materializer invocations: the
\* decrement materializer throws, changing nothing, when it would go below 0
RECURSIVE ServerCounterAfter(_)
ServerCounterAfter(n) ==
    IF n = 0 THEN 0
    ELSE LET before == ServerCounterAfter(n - 1)
         IN  IF before + Effect(sMatLog[n]) < 0
             THEN before
             ELSE before + Effect(sMatLog[n])

\* serverState.counter
ServerCounter == ServerCounterAfter(Len(sMatLog))

\* the n-th materializer invocation threw 'Cannot go below zero'
ServerRejects(n) == ServerCounterAfter(n - 1) + Effect(sMatLog[n]) < 0

\* the sum of f over the indices in S
RECURSIVE Sum(_, _)
Sum(f, S) ==
    IF S = {} THEN 0
    ELSE LET x == CHOOSE y \in S : TRUE IN f[x] + Sum(f, S \ {x})

\* what the materializer invocations of the i-th receive call added
ReceiveEffect(i) ==
    Sum([k \in DOMAIN cRecv[i].calls |->
            IF cRecv[i].calls[k].materializer = "apply"
            THEN Effect(cRecv[i].calls[k].ev)
            ELSE 0 - Effect(cRecv[i].calls[k].ev)],
        DOMAIN cRecv[i].calls)

\* clientState.counter: every apply and rollback body has run when invoked
ClientCounter ==
    Sum([k \in DOMAIN cApplyLog |-> Effect(cApplyLog[k])], DOMAIN cApplyLog)
    + Sum([i \in 1..MaxReceives |-> ReceiveEffect(i)], 1..MaxReceives)

\* ReceiveStart that treats a matching error acknowledgement as a matching
\* success: the entry is retired and rollback is not invoked
ReceiveStartRetiringErrors(i, c) ==
    /\ cRecv[i].pc = "idle"
    /\ \A j \in 1..(i - 1) : cRecv[j].pc # "idle"
    /\ IF InPending(cPending, c.clientId)
       THEN /\ cRecv' = [cRecv EXCEPT ![i] = Receiving("resolved", c, "retire", <<>>)]
            /\ cPending' = Without(cPending, c.clientId)
       ELSE IF c.error
            THEN /\ cRecv' = [cRecv EXCEPT ![i] = Receiving("resolved", c, "ignore", <<>>)]
                 /\ UNCHANGED cPending
            ELSE /\ cRecv' = [cRecv EXCEPT ![i] =
                        Receiving("apply", c, "apply", <<Call("apply", c)>>)]
                 /\ UNCHANGED cPending

\* the body of client.receive(c) up to its first awaited promise, as the
\* i-th receive call: lines 110-136 of client.ts
ReceiveStart(i, c) ==
    /\ cRecv[i].pc = "idle"
    /\ \A j \in 1..(i - 1) : cRecv[j].pc # "idle"
    /\ IF InPending(cPending, c.clientId)
       THEN IF c.error
            THEN /\ cRecv' = [cRecv EXCEPT ![i] =
                        Receiving("rollback", c, "rollback", <<Call("rollback", c)>>)]
                 /\ UNCHANGED cPending
            ELSE /\ cRecv' = [cRecv EXCEPT ![i] = Receiving("resolved", c, "retire", <<>>)]
                 /\ cPending' = Without(cPending, c.clientId)
       ELSE IF c.error
            THEN /\ cRecv' = [cRecv EXCEPT ![i] = Receiving("resolved", c, "ignore", <<>>)]
                 /\ UNCHANGED cPending
            ELSE /\ cRecv' = [cRecv EXCEPT ![i] =
                        Receiving("apply", c, "apply", <<Call("apply", c)>>)]
                 /\ UNCHANGED cPending

\* onCommit(clientEvent) of the wiring: server.commit(clientEvent) runs
\* (decode, offer, fork if idle) and resolves, and so does onCommit
WiredOnCommit ==
    /\ cPc = "onCommit"
    /\ schemaFromEvents(cEvent)
    /\ cOnCommitOutcomes' = Append(cOnCommitOutcomes, "returned")
    /\ cPc' = "take"
    /\ sQueue' = Append(sQueue, Decode(cEvent))
    /\ sValidated' = Append(sValidated, cEvent)
    /\ sCalls' = sCalls + 1
    /\ IF sStatus = "processing"
       THEN UNCHANGED <<sStatus, sPc, sForks>>
       ELSE /\ sStatus' = "processing"
            /\ sPc' = "take"
            /\ sForks' = sForks + 1
    /\ UNCHANGED <<sOptSequence, sSequence, sEvent, sLocalSeq, sMatLog, sMatOutcomes,
                   sAcks, sSeqAtAck, sAckOutcomes, sWarnings, sRejected>>
    /\ UNCHANGED <<cOptSequence, cMaterializers, cSequence, cStatus, cQueue, cPending,
                   cEvent, cRecv, cApplyLog, cApplyOutcomes, cOnCommitLog, cWarnings,
                   cCalls, cRejected, cValidated, cForks>>

\* the server materializer returned: onCommited is invoked with the success
\* acknowledgement and calls client.receive with it
WiredMaterializerOk ==
    /\ sPc = "materializer"
    /\ ~ServerRejects(Len(sMatLog))
    /\ sMatOutcomes' = Append(sMatOutcomes, "returned")
    /\ sLocalSeq' = sSequence
    /\ sAcks' = Append(sAcks, SuccessAck(sEvent, sSequence))
    /\ sSeqAtAck' = Append(sSeqAtAck, sSequence)
    /\ sPc' = "onCommited"
    /\ \E i \in 1..MaxReceives : ReceiveStart(i, SuccessAck(sEvent, sSequence))
    /\ UNCHANGED <<sOptSequence, sSequence, sStatus, sQueue, sEvent, sMatLog,
                   sAckOutcomes, sWarnings, sCalls, sRejected, sValidated, sForks>>
    /\ UNCHANGED <<cOptSequence, cMaterializers, cSequence, cStatus, cQueue, cPc,
                   cEvent, cApplyLog, cApplyOutcomes, cOnCommitLog, cOnCommitOutcomes,
                   cWarnings, cCalls, cRejected, cValidated, cForks>>

\* the server materializer threw: onCommited is invoked with the error
\* acknowledgement and calls client.receive with it
WiredMaterializerFail ==
    /\ sPc = "materializer"
    /\ ServerRejects(Len(sMatLog))
    /\ sMatOutcomes' = Append(sMatOutcomes, "threw")
    /\ sAcks' = Append(sAcks, ErrorAck(sEvent))
    /\ sSeqAtAck' = Append(sSeqAtAck, sSequence)
    /\ sPc' = "onCommitedError"
    /\ \E i \in 1..MaxReceives : ReceiveStart(i, ErrorAck(sEvent))
    /\ UNCHANGED <<sOptSequence, sSequence, sStatus, sQueue, sEvent, sLocalSeq, sMatLog,
                   sAckOutcomes, sWarnings, sCalls, sRejected, sValidated, sForks>>
    /\ UNCHANGED <<cOptSequence, cMaterializers, cSequence, cStatus, cQueue, cPc,
                   cEvent, cApplyLog, cApplyOutcomes, cOnCommitLog, cOnCommitOutcomes,
                   cWarnings, cCalls, cRejected, cValidated, cForks>>

\* the receive call made by the onCommited invocation in progress, the
\* latest one, has resolved
ReceiveOfAckResolved == Received >= 1 /\ cRecv[Received].pc = "resolved"

\* client.receive resolved, so onCommited returns for a success
\* acknowledgement
WiredOnCommitedReturn == ReceiveOfAckResolved /\ ServerOnCommitedReturn

\* client.receive resolved, so onCommited returns for an error
\* acknowledgement
WiredOnCommitedErrorReturn == ReceiveOfAckResolved /\ ServerOnCommitedErrorReturn

\* the steps of the wired system; the counter materializers of the Client
\* never throw
WiredNext ==
    \/ ClientCommitInvalid
    \/ ClientCommit
    \/ ClientTake
    \/ ClientApplyOk
    \/ WiredOnCommit
    \/ ServerTake
    \/ WiredMaterializerOk
    \/ WiredMaterializerFail
    \/ ReceiveRollbackOk
    \/ ReceiveApplyOk
    \/ WiredOnCommitedReturn
    \/ WiredOnCommitedErrorReturn

WiredSpec == ClientOnly /\ [][WiredNext]_vars

\* the steps of the wired system other than the commit calls of the user
WiredProgress ==
    \/ ClientTake
    \/ ClientApplyOk
    \/ WiredOnCommit
    \/ ServerTake
    \/ WiredMaterializerOk
    \/ WiredMaterializerFail
    \/ ReceiveRollbackOk
    \/ ReceiveApplyOk
    \/ WiredOnCommitedReturn
    \/ WiredOnCommitedErrorReturn

\* the wired system with fibers that keep being scheduled and promises
\* that settle
WiredFairSpec == ClientOnly /\ [][WiredNext]_vars /\ WF_vars(WiredProgress)

(* ------------------------------ properties ----------------------------- *)

\* the success acknowledgements, in invocation order
SuccessAcks == SelectSeq(sAcks, LAMBDA a : ~a.error)

\* ctx.sequence once the iteration of the i-th acknowledgement is over
SequenceAfter(i) == IF i < Len(sSeqAtAck) THEN sSeqAtAck[i + 1] ELSE sSequence

\* the i-th receive call makes its first step, with argument cRecv'[i].ev
Starts(i) == cRecv[i].pc = "idle" /\ cRecv'[i].pc # "idle"

\* C1: the sequence values of the success acknowledgements are, in
\* invocation order, options.sequence, options.sequence + 1, ... with none
\* repeated and none skipped, whatever failed events lie between them
C1_DenseSuccessSequences ==
    \A i \in 1..Len(SuccessAcks) : SuccessAcks[i].sequence = sOptSequence + i - 1

\* C2: when the materializer throws, onCommited gets the event's name,
\* payload and clientId with sequence -1 and error true, the counter is not
\* advanced by that iteration, and the next success acknowledgement carries
\* the value the counter had at the failed one
C2_FailedCommitAck ==
    \A i \in DOMAIN sMatOutcomes :
        sMatOutcomes[i] = "threw" =>
            /\ i \in DOMAIN sAcks
            /\ sAcks[i] = [name |-> sMatLog[i].name, payload |-> sMatLog[i].payload,
                           clientId |-> sMatLog[i].clientId, sequence |-> -1,
                           error |-> TRUE]
            /\ SequenceAfter(i) = sSeqAtAck[i]
            /\ \A j \in DOMAIN sAcks :
                (j > i /\ ~sAcks[j].error /\ \A k \in (i + 1)..(j - 1) : sAcks[k].error)
                    => sAcks[j].sequence = sSeqAtAck[i]

\* a failed event that carried a clientId, followed by a successful one
C2_Witness ==
    \E i \in DOMAIN sAcks :
        /\ sMatOutcomes[i] = "threw"
        /\ sAcks[i].clientId # NoId
        /\ i + 1 \in DOMAIN sAcks
        /\ sMatOutcomes[i + 1] = "returned"

\* C3: when the materializer succeeded and onCommited threw, the counter is
\* advanced by 1 all the same: once that iteration is over the counter is
\* the acknowledged value plus 1
C3_CallbackErrorStillAdvances ==
    \A i \in DOMAIN sAckOutcomes :
        (~sAcks[i].error /\ sAckOutcomes[i] = "threw")
            => SequenceAfter(i) = sAcks[i].sequence + 1

\* C4: receive(c) with c.clientId an entry of pending and c.error: rollback
\* is invoked with c and apply is not, and when the call completes the
\* entry of c.clientId is not in pending
C4_MatchingErrorRollsBack ==
    [][\A i \in 1..MaxReceives :
        /\ (Starts(i) /\ cRecv'[i].ev.error /\ cRecv'[i].ev.clientId \in DOMAIN cPending)
            => /\ cRecv'[i].calls = <<Call("rollback", cRecv'[i].ev)>>
               /\ cRecv'[i].pc = "rollback"
        /\ (cRecv[i].pc = "rollback" /\ cRecv'[i].pc # "rollback")
            => /\ cRecv'[i].ev.clientId \notin DOMAIN cPending'
               /\ cRecv'[i].calls = cRecv[i].calls
      ]_vars

\* C5: receive(c) with c.clientId an entry of pending and no c.error: the
\* entry is removed, every other entry is kept as it is, neither apply nor
\* rollback is invoked and the call resolves
C5_MatchingSuccessRetires ==
    [][\A i \in 1..MaxReceives :
        (Starts(i) /\ ~cRecv'[i].ev.error /\ cRecv'[i].ev.clientId \in DOMAIN cPending)
            => /\ DOMAIN cPending' = DOMAIN cPending \ {cRecv'[i].ev.clientId}
               /\ \A k \in DOMAIN cPending' : cPending'[k] = cPending[k]
               /\ cRecv'[i].calls = <<>>
               /\ cRecv'[i].pc = "resolved"
      ]_vars

\* the second of two committed events is acknowledged first and retired
\* while the first one stays pending
C5_OutOfOrderRetired ==
    /\ Len(cOnCommitLog) = 2
    /\ cOnCommitLog[1].clientId # cOnCommitLog[2].clientId
    /\ cRecv[1].pc = "resolved"
    /\ cRecv[1].path = "retire"
    /\ cRecv[1].ev.clientId = cOnCommitLog[2].clientId
    /\ DOMAIN cPending = {cOnCommitLog[1].clientId}
    /\ cPending[cOnCommitLog[1].clientId] = cOnCommitLog[1]

\* C6: receive(c) with no c.error and c.clientId absent or not an entry of
\* pending: apply is invoked with c, once, pending is left as it is and
\* onCommit is not invoked
C6_ForeignSuccessApplied ==
    [][\A i \in 1..MaxReceives :
        /\ (Starts(i) /\ ~cRecv'[i].ev.error
                /\ (cRecv'[i].ev.clientId = NoId \/ cRecv'[i].ev.clientId \notin DOMAIN cPending))
            => /\ cRecv'[i].calls = <<Call("apply", cRecv'[i].ev)>>
               /\ cPending' = cPending
               /\ cOnCommitLog' = cOnCommitLog
        /\ cRecv[i].pc # "idle" => cRecv'[i].calls = cRecv[i].calls
      ]_vars

\* C7: receive(c) with c.error and c.clientId absent or not an entry of
\* pending: no materializer is invoked, pending, queue, status and sequence
\* are left as they are and the call resolves
C7_ForeignErrorIgnored ==
    [][\A i \in 1..MaxReceives :
        (Starts(i) /\ cRecv'[i].ev.error
                /\ (cRecv'[i].ev.clientId = NoId \/ cRecv'[i].ev.clientId \notin DOMAIN cPending))
            => /\ cRecv'[i].calls = <<>>
               /\ UNCHANGED <<cPending, cQueue, cStatus, cSequence>>
               /\ cRecv'[i].pc = "resolved"
      ]_vars

\* C8: when the rollback run by receive(c) for an entry of pending throws,
\* receive resolves and the entry of c.clientId is removed
C8_RollbackErrorSwallowed ==
    [][\A i \in 1..MaxReceives :
        (cRecv[i].pc = "rollback" /\ cRecv[i].ev.clientId \notin ProtoKeys
                /\ cRecv'[i].outcome = "threw")
            => /\ cRecv'[i].pc = "resolved"
               /\ cRecv'[i].ev.clientId \notin DOMAIN cPending'
      ]_vars

\* C9: when onCommit throws, the drain loop goes on: it is back at
\* Queue.take for the events committed afterwards
C9_OnCommitErrorSwallowed ==
    [][(Len(cOnCommitOutcomes') = Len(cOnCommitOutcomes) + 1
            /\ cOnCommitOutcomes'[Len(cOnCommitOutcomes')] = "threw")
        => cPc' = "take"
      ]_vars

\* C10: when the drain's apply throws, the event is not inserted into
\* pending, onCommit is not invoked for it and the drain is back at
\* Queue.take; pending gains an entry and onCommit is invoked only in the
\* step in which the drain's apply returned, and for that event
C10_ApplyErrorSkipsPending ==
    [][/\ (Len(cApplyOutcomes') = Len(cApplyOutcomes) + 1
                /\ cApplyOutcomes'[Len(cApplyOutcomes')] = "threw")
            => /\ cPending' = cPending
               /\ cOnCommitLog' = cOnCommitLog
               /\ cPc' = "take"
       /\ (\/ cOnCommitLog' # cOnCommitLog
           \/ \E k \in DOMAIN cPending' : k \notin DOMAIN cPending \/ cPending'[k] # cPending[k])
            => /\ Len(cApplyOutcomes') = Len(cApplyOutcomes) + 1
               /\ cApplyOutcomes'[Len(cApplyOutcomes')] = "returned"
               /\ LET e == cApplyLog[Len(cApplyOutcomes')]
                  IN  /\ cOnCommitLog' = Append(cOnCommitLog, e)
                      /\ cPending' = With(cPending, e.clientId, e)
      ]_vars

\* the first event's apply threw and the second event went through to onCommit
C10_Witness ==
    /\ cApplyOutcomes = <<"threw", "returned">>
    /\ cWarnings = 1
    /\ Len(cOnCommitLog) = 1
    /\ cOnCommitLog[1] = cApplyLog[2]
    /\ DOMAIN cPending = {cOnCommitLog[1].clientId}

\* the events of log whose invocation ended by returning, in order
Returned(log, outcomes) ==
    LET idx == SelectSeq([i \in 1..Len(outcomes) |-> i],
                         LAMBDA i : outcomes[i] = "returned")
    IN  [k \in 1..Len(idx) |-> log[idx[k]]]

\* C11: on the Client, every dequeued event whose apply succeeds is passed
\* to onCommit exactly once, carrying the minted clientId: the onCommit
\* invocations are exactly the successfully applied events, in order; and
\* at the moment onCommit(e) starts, pending[e.clientId] = e
C11_OnCommitAfterPendingInsert ==
    /\ [](/\ cOnCommitLog = Returned(cApplyLog, cApplyOutcomes)
          /\ \A k \in DOMAIN cOnCommitLog : cOnCommitLog[k].clientId \in MintIds)
    /\ [][Len(cOnCommitLog') > Len(cOnCommitLog) =>
            LET e == cOnCommitLog'[Len(cOnCommitLog')]
            IN  /\ cOnCommitLog' = Append(cOnCommitLog, e)
                /\ e = cApplyLog[Len(cApplyLog)]
                /\ InPending(cPending', e.clientId)
                /\ cPending'[e.clientId] = e]_vars

\* an event committed with a caller-supplied clientId has been applied and
\* is running onCommit under a minted clientId, held in pending
C11_Witness ==
    /\ cPc = "onCommit"
    /\ cValidated[Len(cApplyLog)].clientId \in ForeignIds
    /\ cOnCommitLog[Len(cOnCommitLog)] = cEvent
    /\ cEvent.clientId \in MintIds
    /\ cEvent.name = cValidated[Len(cApplyLog)].name
    /\ InPending(cPending, cEvent.clientId)
    /\ cPending[cEvent.clientId] = cEvent

\* the k-th event passed to onCommit has been acknowledged: a receive call
\* made after that onCommit invocation, carrying the event's clientId, has
\* finished
Acknowledged(k) ==
    \E i \in 1..MaxReceives :
        /\ cRecv[i].pc \in {"resolved", "rejected"}
        /\ cRecv[i].after >= k
        /\ cRecv[i].ev.clientId = cOnCommitLog[k].clientId

\* C12: for any interleaving of client.commit and client.receive, once every
\* event that was passed to onCommit has been acknowledged by a receive
\* carrying its clientId, with success or with error, pending is empty
C12_AcknowledgedMeansNotPending ==
    (\A k \in DOMAIN cOnCommitLog : Acknowledged(k)) => DOMAIN cPending = {}

\* C13: the Server materializes and acknowledges validated events in strict
\* enqueue order: the k-th materializer invocation is for the k-th enqueued
\* event, the queue holds the later ones in order, and a materializer
\* starts only when the materializer and the onCommited call of every
\* earlier event have finished
C13_ServerEnqueueOrder ==
    /\ [](/\ Len(sMatLog) <= Len(sValidated)
          /\ sMatLog = SubSeq(sValidated, 1, Len(sMatLog))
          /\ sQueue = SubSeq(sValidated, Len(sMatLog) + 1, Len(sValidated)))
    /\ [][Len(sMatLog') > Len(sMatLog) =>
            /\ Len(sMatOutcomes) = Len(sMatLog)
            /\ Len(sAcks) = Len(sMatLog)
            /\ Len(sAckOutcomes) = Len(sMatLog)]_vars

\* the materializer of the second of three different-looking events runs
\* while the third waits, the first being materialized and acknowledged
C13_Witness ==
    /\ sPc = "materializer"
    /\ Len(sMatLog) = 2
    /\ Len(sValidated) = 3
    /\ sValidated[1] # sValidated[2]
    /\ sValidated[2] # sValidated[3]
    /\ sEvent = sValidated[2]
    /\ Len(sAckOutcomes) = 1

\* the event e as the drain passes it on: clientId replaced by a minted one
Minted(e, c) == c.clientId \in MintIds /\ c = [e EXCEPT !.clientId = c.clientId]

\* C14: the Client drain processes validated events in commit order: the
\* k-th apply invocation of the drain is for the k-th enqueued event, the
\* queue holds the later ones in order, an apply starts only when every
\* earlier apply and every earlier onCommit have finished, and so the
\* onCommit invocations follow the order of the commit calls
C14_ClientCommitOrder ==
    /\ [](/\ Len(cApplyLog) <= Len(cValidated)
          /\ \A k \in DOMAIN cApplyLog : Minted(cValidated[k], cApplyLog[k])
          /\ cQueue = SubSeq(cValidated, Len(cApplyLog) + 1, Len(cValidated))
          /\ cOnCommitLog = Returned(cApplyLog, cApplyOutcomes))
    /\ [][Len(cApplyLog') > Len(cApplyLog) =>
            /\ Len(cApplyOutcomes) = Len(cApplyLog)
            /\ Len(cOnCommitOutcomes) = Len(cOnCommitLog)]_vars

\* two different events were committed and both have been applied and
\* passed to onCommit, in commit order
C14_Witness ==
    /\ Len(cValidated) = 2
    /\ cValidated[1].name # cValidated[2].name
    /\ Len(cOnCommitLog) = 2
    /\ cOnCommitLog[1].name = cValidated[1].name
    /\ cOnCommitLog[2].name = cValidated[2].name

\* an event whose name is declared and whose payload conforms
Conforms(e) == e.name \in EventNames /\ e.payload \in NumberPayloads

\* C15: on either replica, commit of an event whose name is not declared or
\* whose payload does not conform rejects and has no other effect: only
\* conforming events are ever offered to a queue, and a rejecting commit
\* leaves the queue, the status, the sequence, pending, the drain and all
\* materializer and callback invocations as they were
C15_InvalidCommitHasNoEffect ==
    /\ [](/\ \A k \in DOMAIN sValidated : Conforms(sValidated[k])
          /\ \A k \in DOMAIN cValidated : Conforms(cValidated[k])
          /\ sCalls = sRejected + Len(sValidated)
          /\ cCalls = cRejected + Len(cValidated))
    /\ [][/\ sRejected' # sRejected =>
                /\ sRejected' = sRejected + 1
                /\ sCalls' = sCalls + 1
                /\ UNCHANGED <<sQueue, sStatus, sSequence, sPc, sEvent, sLocalSeq,
                               sMatLog, sMatOutcomes, sAcks, sSeqAtAck, sAckOutcomes,
                               sWarnings, sValidated, sForks>>
                /\ UNCHANGED clientVars
          /\ cRejected' # cRejected =>
                /\ cRejected' = cRejected + 1
                /\ cCalls' = cCalls + 1
                /\ UNCHANGED <<cQueue, cStatus, cSequence, cPending, cPc, cEvent,
                               cRecv, cApplyLog, cApplyOutcomes, cOnCommitLog,
                               cOnCommitOutcomes, cWarnings, cValidated, cForks>>
                /\ UNCHANGED serverVars]_vars

\* each replica has rejected a commit and neither has started a drain,
\* invoked anything or left its initial status
C15_Witness ==
    /\ sRejected >= 1
    /\ cRejected >= 1
    /\ sStatus = "idle" /\ sPc = "none" /\ sQueue = <<>> /\ sMatLog = <<>>
    /\ cStatus = "idle" /\ cPc = "none" /\ cQueue = <<>> /\ cApplyLog = <<>>
    /\ DOMAIN cPending = {}

\* C16: on the Server, for every validated event that enters the queue the
\* materializer is invoked exactly once and onCommited exactly once, in the
\* success form if the materializer returned and in the error form if it
\* threw, at the moment the materializer finishes; when the drain waits on
\* an empty queue every enqueued event has had both
C16_MaterializedAndAckedOnce ==
    /\ Len(sMatLog) <= Len(sValidated)
    /\ sMatLog = SubSeq(sValidated, 1, Len(sMatLog))
    /\ Len(sAcks) = Len(sMatOutcomes)
    /\ Len(sMatLog) = Len(sMatOutcomes) + (IF sPc = "materializer" THEN 1 ELSE 0)
    /\ \A i \in DOMAIN sAcks :
        sAcks[i] = IF sMatOutcomes[i] = "returned"
                   THEN SuccessAck(sMatLog[i], sAcks[i].sequence)
                   ELSE ErrorAck(sMatLog[i])
    /\ (sPc = "take" /\ sQueue = <<>>) => Len(sAcks) = Len(sValidated)

\* three events were enqueued and the drain waits on the empty queue, one
\* materializer having returned and one having thrown
C16_Witness ==
    /\ sPc = "take"
    /\ sQueue = <<>>
    /\ Len(sValidated) = 3
    /\ Len(sAcks) = 3
    /\ \E i, j \in DOMAIN sAcks :
        /\ sMatOutcomes[i] = "returned" /\ ~sAcks[i].error
        /\ sMatOutcomes[j] = "threw" /\ sAcks[j].error

\* C17: the clientId carried by each onCommited invocation of the Server is
\* exactly the clientId of the submitted CommitEvent, absent when it was
\* absent, in success and in error acknowledgements alike
C17_ClientIdEchoed ==
    /\ Len(sAcks) <= Len(sValidated)
    /\ \A i \in DOMAIN sAcks :
        /\ sAcks[i].clientId = sValidated[i].clientId
        /\ sAcks[i].name = sValidated[i].name
        /\ sAcks[i].payload = sValidated[i].payload

\* a success and an error acknowledgement carrying a submitted clientId,
\* and an acknowledgement of an event submitted without one
C17_Witness ==
    \E i, j, k \in DOMAIN sAcks :
        /\ sAcks[i].error /\ sAcks[i].clientId \in ForeignIds
        /\ ~sAcks[j].error /\ sAcks[j].clientId \in ForeignIds
        /\ sAcks[k].clientId = NoId /\ sValidated[k].clientId = NoId

\* C18: a materializer error or a callback error never stops the drain loop
\* of the Server: when every materializer and callback invocation ends and
\* the drain fiber keeps being scheduled, the n-th validated event is
\* eventually materialized and acknowledged through onCommited, and that
\* onCommited call eventually ends, whatever errors the earlier ones raised
C18_ServerDrainLive ==
    \A n \in 1..MaxServerCommits :
        (Len(sValidated) >= n) ~>
            (/\ Len(sMatOutcomes) >= n
             /\ Len(sAckOutcomes) >= n
             /\ sMatLog[n] = sValidated[n]
             /\ sAcks[n].name = sValidated[n].name)

\* the third event has been materialized and acknowledged after the first
\* one's materializer threw and the second one's onCommited threw
C18_Witness ==
    /\ Len(sAckOutcomes) = 3
    /\ sMatOutcomes[1] = "threw"
    /\ sMatOutcomes[2] = "returned"
    /\ sAckOutcomes[2] = "threw"
    /\ sAcks[3].name = sValidated[3].name

\* C19: on each replica, however the commit calls interleave with each
\* other and with the drain, at most one drain fiber is ever forked: the
\* move from 'idle' to 'processing' and the fork happen in the first valid
\* commit and in no other, which only enqueues
C19_AtMostOneDrain ==
    /\ [](/\ sForks = (IF sValidated = <<>> THEN 0 ELSE 1)
          /\ cForks = (IF cValidated = <<>> THEN 0 ELSE 1)
          /\ sStatus = (IF sForks = 0 THEN "idle" ELSE "processing")
          /\ cStatus = (IF cForks = 0 THEN "idle" ELSE "processing")
          /\ (sPc = "none") = (sForks = 0)
          /\ (cPc = "none") = (cForks = 0))
    /\ [][/\ sForks' # sForks =>
                sValidated = <<>> /\ sStatus = "idle" /\ sStatus' = "processing"
          /\ cForks' # cForks =>
                cValidated = <<>> /\ cStatus = "idle" /\ cStatus' = "processing"
          /\ (Len(sValidated') > Len(sValidated) /\ sValidated # <<>>) =>
                /\ sQueue' = Append(sQueue, sValidated'[Len(sValidated')])
                /\ UNCHANGED <<sStatus, sPc, sForks, sSequence, sMatLog, sAcks>>
          /\ (Len(cValidated') > Len(cValidated) /\ cValidated # <<>>) =>
                /\ cQueue' = Append(cQueue, cValidated'[Len(cValidated')])
                /\ UNCHANGED <<cStatus, cPc, cForks, cPending, cApplyLog,
                               cOnCommitLog>>]_vars

\* two valid commits reached the Server before its drain took anything and
\* one the Client: each replica has forked one drain
C19_Witness ==
    /\ sForks = 1
    /\ cForks = 1
    /\ Len(sValidated) = 2
    /\ Len(sQueue) = 2
    /\ sPc = "take"
    /\ cPc = "apply"

\* the materializer invocations of the Client whose promise has not settled:
\* the drain's apply and the apply or rollback of each receive call
MaterializersInProgress ==
    (IF cPc = "apply" THEN 1 ELSE 0)
    + Cardinality({i \in 1..MaxReceives : cRecv[i].pc \in {"apply", "rollback"}})

\* C20: no two materializer invocations on the Client are ever in progress
\* at the same time: an apply or rollback started by receive overlaps
\* neither an apply of the drain nor a materializer of another receive
C20_ClientMaterializersSerialized == MaterializersInProgress <= 1

\* the materializer invocations of the Server whose promise has not settled
ServerMaterializersInProgress == Len(sMatLog) - Len(sMatOutcomes)

\* the onCommited invocations of the Server whose promise has not settled
ServerCallbacksInProgress == Len(sAcks) - Len(sAckOutcomes)

\* C21: no two materializer invocations of the Server are ever in progress
\* at the same time, however the commit calls interleave with the drain and
\* however long a materializer's promise takes to settle; a materializer
\* is never in progress together with an onCommited call, and it starts
\* only when nothing of an earlier event is still in progress
C21_ServerMaterializersSerialized ==
    /\ [](/\ ServerMaterializersInProgress \in {0, 1}
          /\ ServerCallbacksInProgress \in {0, 1}
          /\ ServerMaterializersInProgress + ServerCallbacksInProgress <= 1
          /\ (ServerMaterializersInProgress = 1) = (sPc = "materializer"))
    /\ [][Len(sMatLog') > Len(sMatLog) =>
            /\ Len(sMatLog') = Len(sMatLog) + 1
            /\ ServerMaterializersInProgress = 0
            /\ ServerCallbacksInProgress = 0]_vars

\* a materializer is in progress while two further valid commits have
\* come in and wait in the queue
C21_Witness ==
    /\ ServerMaterializersInProgress = 1
    /\ Len(sQueue) = 2
    /\ sCalls = 3

\* C22: commit on either replica resolves as soon as the validated event is
\* enqueued: a commit call that the bounds still allow can run to its end
\* in every state, also while a materializer or a callback of an earlier
\* event is in progress or after the Client drain has ended; and the step
\* that enqueues leaves every materializer and callback invocation, started
\* or finished, as it was
C22_CommitResolvesOnEnqueue ==
    /\ [](/\ sCalls < MaxServerCommits => ENABLED ServerCommit
          /\ (cCalls < MaxClientCommits /\ cCalls + Received < MaxClientCalls)
                => ENABLED ClientCommit)
    /\ [][/\ Len(sValidated') > Len(sValidated) =>
                /\ sQueue' = Append(sQueue, sValidated'[Len(sValidated')])
                /\ UNCHANGED <<sMatLog, sMatOutcomes, sAcks, sAckOutcomes>>
          /\ Len(cValidated') > Len(cValidated) =>
                /\ cQueue' = Append(cQueue, cValidated'[Len(cValidated')])
                /\ UNCHANGED <<cApplyLog, cApplyOutcomes, cOnCommitLog,
                               cOnCommitOutcomes>>]_vars

\* a commit on the Server has been enqueued behind a materializer that is
\* still in progress, and the one commit on the Client has resolved while
\* its own apply is still in progress
C22_Witness ==
    /\ sPc = "materializer"
    /\ Len(sValidated) = 2
    /\ Len(sQueue) = 1
    /\ cPc = "apply"
    /\ Len(cValidated) = 1
    /\ cQueue = <<>>

\* C23: when a client.commit(e) call has resolved, the optimistic apply of
\* e and of every event committed before it has been performed: once the
\* drain has left its take point, apply has been invoked for every event
\* whose commit resolved
C23_AppliedWhenCommitResolves ==
    cPc \notin {"none", "take"} => Len(cApplyLog) = Len(cValidated)

\* nothing is in flight in the wired system: both queues are drained, both
\* drains wait for the next event, no receive call is in progress and
\* pending is empty
Quiescent ==
    /\ cQueue = <<>>
    /\ sQueue = <<>>
    /\ cPc \in {"none", "take"}
    /\ sPc \in {"none", "take"}
    /\ \A i \in 1..MaxReceives : cRecv[i].pc \in {"idle", "resolved"}
    /\ DOMAIN cPending = {}

\* the clientIds minted by the drain so far are pairwise different
MintedIdsDistinct ==
    \A j, k \in DOMAIN cApplyLog : j # k => cApplyLog[j].clientId # cApplyLog[k].clientId

\* every event the Server rejected has been rolled back on the Client:
\* the receive call of each error acknowledgement invoked rollback with it
RejectedRolledBack ==
    \A n \in DOMAIN sAcks :
        sAcks[n].error =>
            /\ cRecv[n].pc = "resolved"
            /\ cRecv[n].calls = <<Call("rollback", sAcks[n])>>

\* C24: in the wired single-client system with the counter materializers,
\* whenever the system is quiescent the Client counter equals the Server
\* counter
C24_QuiescentCountersEqual == Quiescent => ClientCounter = ServerCounter

\* C24, amended: after any finite sequence of client commits the wired
\* system becomes quiescent again, and whenever it is quiescent and the
\* minted clientIds were pairwise different, the Client counter equals the
\* Server counter and every rejected event has been rolled back
C24_ConvergesWhenIdsDistinct ==
    /\ []<>Quiescent
    /\ []((Quiescent /\ MintedIdsDistinct) =>
            /\ ClientCounter = ServerCounter
            /\ RejectedRolledBack)

\* quiescent after an accepted increment and a rejected decrement that was
\* applied optimistically and rolled back
C24_Witness ==
    /\ Quiescent
    /\ MintedIdsDistinct
    /\ Len(sAcks) = 2
    /\ \E n \in DOMAIN sAcks : sAcks[n].error
    /\ \E n \in DOMAIN sAcks : ~sAcks[n].error
    /\ ServerCounter = 1
    /\ ClientCounter = 1

\* C25: in the wired single-client system the Server materializes the
\* Client's events in the order the Client committed them: the k-th
\* materializer invocation of the Server is for the k-th event whose
\* client.commit resolved, under the clientId the Client minted for it
C25_ServerFollowsCommitOrder ==
    /\ Len(sMatLog) <= Len(cOnCommitLog)
    /\ Len(sMatLog) <= Len(cValidated)
    /\ \A k \in DOMAIN sMatLog :
        /\ Minted(cValidated[k], sMatLog[k])
        /\ sMatLog[k] = cOnCommitLog[k]

\* two different events, committed in this order, have both been
\* materialized by the Server
C25_Witness ==
    /\ Len(sMatLog) = 2
    /\ cValidated[1].name # cValidated[2].name
    /\ sMatLog[1].name = cValidated[1].name
    /\ sMatLog[2].name = cValidated[2].name
    /\ Len(sMatOutcomes) = 2

\* the receive calls made so far that carried a foreign success event: no
\* error, and no clientId or a clientId that was no key of pending when the
\* call was made (the keys of pending are minted ids, and for a minted id
\* the path taken tells whether it was a key)
ForeignSuccesses ==
    {i \in 1..MaxReceives :
        /\ cRecv[i].pc # "idle"
        /\ ~cRecv[i].ev.error
        /\ \/ cRecv[i].ev.clientId = NoId
           \/ cRecv[i].ev.clientId \notin MintIds
           \/ cRecv[i].path = "apply"}

\* the apply invocations made by receive calls so far
ReceiveApplies ==
    {i \in 1..MaxReceives :
        \E k \in DOMAIN cRecv[i].calls : cRecv[i].calls[k].materializer = "apply"}

\* C26: for any interleaving of k client.commit calls and m client.receive
\* calls carrying foreign success events, apply is invoked exactly k + m
\* times: never more, and exactly so many once the drain waits on an empty
\* queue; each foreign success event is applied once by its receive call
C26_ApplyCountIsCommitsPlusForeign ==
    /\ Len(cApplyLog) <= Len(cValidated)
    /\ \A i \in 1..MaxReceives : Len(cRecv[i].calls) <= 1
    /\ Cardinality(ReceiveApplies) = Cardinality(ForeignSuccesses)
    /\ (cQueue = <<>> /\ cPc \in {"none", "take"}) =>
            Len(cApplyLog) + Cardinality(ReceiveApplies)
                = Len(cValidated) + Cardinality(ForeignSuccesses)

\* C27: a Client whose options.materializers has an entry that lacks apply
\* or lacks rollback does not get constructed: every Client that exists
\* has both members in every entry
C27_IncompleteMaterializersRejected ==
    \A k \in EventNames : cMaterializers[k] = Members

\* C28: on a successful materialization the Server drain reads the current
\* sequence s and invokes onCommited with sequence s; throughout that call
\* the Server's sequence still equals s, the value being acknowledged, and
\* the step in which the call returns is the one that sets sequence to s + 1
C28_SequenceHeldDuringAck ==
    /\ [](sPc = "onCommited" =>
            /\ ~sAcks[Len(sAcks)].error
            /\ sAcks[Len(sAcks)].sequence = sSequence
            /\ sLocalSeq = sSequence
            /\ Len(sAckOutcomes) = Len(sAcks) - 1)
    /\ [][/\ (sPc = "onCommited" /\ sPc' = "onCommited") => sSequence' = sSequence
          /\ (sPc = "onCommited" /\ Len(sAckOutcomes') > Len(sAckOutcomes)
                /\ sAckOutcomes'[Len(sAckOutcomes')] = "returned") =>
                    sSequence' = sAcks[Len(sAcks)].sequence + 1
          /\ (sPc # "onCommited" /\ sPc' = "onCommited") =>
                /\ sSequence' = sSequence
                /\ sAcks' = Append(sAcks, SuccessAck(sEvent, sSequence))]_vars

\* the second success acknowledgement is being delivered while commits
\* keep arriving: sequence is still the value it carries, one above the
\* first one's
C28_Witness ==
    /\ sPc = "onCommited"
    /\ Len(SuccessAcks) = 2
    /\ sAcks[Len(sAcks)].sequence = sSequence
    /\ sSequence = sOptSequence + 1
    /\ sQueue # <<>>

\* C29: the Server's sequence starts at options.sequence and never
\* decreases; every change adds exactly 1 and happens in the drain
\* iteration of an event whose materializer returned, when its onCommited
\* call ends; no commit call, valid or invalid, changes it
C29_SequenceMonotone ==
    /\ [](sSequence >= sOptSequence)
    /\ [][/\ sSequence' >= sSequence
          /\ sSequence' # sSequence =>
                /\ sSequence' = sSequence + 1
                /\ sPc = "onCommited"
                /\ sMatOutcomes[Len(sMatOutcomes)] = "returned"
                /\ Len(sMatOutcomes) = Len(sMatLog)
                /\ sPc' = "take"
                /\ sCalls' = sCalls
          /\ sCalls' # sCalls => sSequence' = sSequence]_vars

\* sequence has advanced twice from options.sequence = 5, with an event
\* whose materializer threw in between or around
C29_Witness ==
    /\ sSequence = sOptSequence + 2
    /\ sOptSequence = 5
    /\ \E i \in DOMAIN sMatOutcomes : sMatOutcomes[i] = "threw"

\* the onCommited call delivering an error acknowledgement ends by throwing
ErrorAckThrows ==
    /\ sPc = "onCommitedError"
    /\ Len(sAckOutcomes') = Len(sAckOutcomes) + 1
    /\ sAckOutcomes'[Len(sAckOutcomes')] = "threw"

\* C30: when the materializer failed and the onCommited call delivering the
\* error acknowledgement throws or rejects, the error is swallowed with a
\* warning, sequence is not advanced, onCommited is not invoked again for
\* that event, and the drain goes back to take the next queued event, the
\* queue being as it was; whenever the drain is back at its take point
\* each event taken so far has had exactly one onCommited invocation
C30_ErrorAckFailureSwallowed ==
    /\ [](sPc = "take" => Len(sAcks) = Len(sMatLog) /\ Len(sAckOutcomes) = Len(sMatLog))
    /\ [][ErrorAckThrows =>
            /\ sAcks[Len(sAcks)] = ErrorAck(sEvent)
            /\ sMatOutcomes[Len(sMatOutcomes)] = "threw"
            /\ sSequence' = sSequence
            /\ sAcks' = sAcks
            /\ sMatLog' = sMatLog
            /\ sQueue' = sQueue
            /\ sStatus' = sStatus
            /\ sWarnings' = sWarnings + 1
            /\ sPc' = "take"]_vars

\* the error acknowledgement of the first event threw, sequence stayed at
\* options.sequence, and the next event has been materialized and
\* acknowledged with that sequence
C30_Witness ==
    /\ Len(sAckOutcomes) >= 2
    /\ sMatOutcomes[1] = "threw"
    /\ sAckOutcomes[1] = "threw"
    /\ sMatOutcomes[2] = "returned"
    /\ sAcks[2] = SuccessAck(sValidated[2], sOptSequence)
    /\ Len(sAcks) = Len(sMatLog)

\* the k-th event passed to onCommit is outstanding: no receive call made
\* since that onCommit invocation started carried the event's clientId
Outstanding(k) ==
    /\ k \in DOMAIN cOnCommitLog
    /\ \A i \in 1..MaxReceives :
        \/ cRecv[i].pc = "idle"
        \/ cRecv[i].after < k
        \/ cRecv[i].ev.clientId # cOnCommitLog[k].clientId

\* every entry of pending is stored under the clientId it carries, and
\* every clientId used by the drain was minted by it, whatever clientId the
\* caller of commit supplied
PendingKeyedByMintedId ==
    /\ \A k \in DOMAIN cPending : cPending[k].clientId = k /\ k \in MintIds
    /\ \A i \in DOMAIN cApplyLog :
        /\ cApplyLog[i].clientId \in MintIds
        /\ cApplyLog[i].name = cValidated[i].name
        /\ cApplyLog[i].payload = cValidated[i].payload

\* C31 as stated: every entry of pending is stored under the clientId it
\* carries, that clientId was minted by the drain, and no two outstanding
\* events share a clientId, each having its own pending entry
C31_OutstandingIdsUnique ==
    /\ PendingKeyedByMintedId
    /\ \A j, k \in DOMAIN cOnCommitLog :
        (j # k /\ Outstanding(j) /\ Outstanding(k)) =>
            cOnCommitLog[j].clientId # cOnCommitLog[k].clientId
    /\ \A k \in DOMAIN cOnCommitLog :
        Outstanding(k) => /\ cOnCommitLog[k].clientId \in DOMAIN cPending
                          /\ cPending[cOnCommitLog[k].clientId] = cOnCommitLog[k]

\* C31 amended: every entry of pending is stored under the clientId it
\* carries, and that clientId was minted by the drain (a clientId supplied
\* by the caller of commit is replaced); an outstanding event has its own
\* pending entry when no other event passed to onCommit was given the same
\* clientId, and the entry stored under a clientId is always the latest
\* event that was inserted under it
C31_PendingKeyedByMintedId ==
    /\ PendingKeyedByMintedId
    /\ \A k \in DOMAIN cOnCommitLog :
        (/\ Outstanding(k)
         /\ \A j \in DOMAIN cOnCommitLog :
                j # k => cOnCommitLog[j].clientId # cOnCommitLog[k].clientId)
        => /\ cOnCommitLog[k].clientId \in DOMAIN cPending
           /\ cPending[cOnCommitLog[k].clientId] = cOnCommitLog[k]
    /\ \A id \in DOMAIN cPending :
        \E k \in DOMAIN cOnCommitLog :
            /\ cPending[id] = cOnCommitLog[k]
            /\ \A j \in DOMAIN cOnCommitLog :
                cOnCommitLog[j].clientId = id => j <= k

\* two events are outstanding under different minted clientIds, one of them
\* committed with a caller-supplied clientId, and each has its own entry
C31_Witness ==
    /\ Len(cOnCommitLog) = 2
    /\ Outstanding(1)
    /\ Outstanding(2)
    /\ cOnCommitLog[1].clientId # cOnCommitLog[2].clientId
    /\ \E i \in DOMAIN cValidated : cValidated[i].clientId \in ForeignIds
    /\ DOMAIN cPending = {cOnCommitLog[1].clientId, cOnCommitLog[2].clientId}
    /\ cPending[cOnCommitLog[1].clientId] = cOnCommitLog[1]
    /\ cPending[cOnCommitLog[2].clientId] = cOnCommitLog[2]

\* the receive calls that have invoked rollback with clientId id
RollbacksOf(id) ==
    {i \in 1..MaxReceives :
        /\ cRecv[i].ev.clientId = id
        /\ \E k \in DOMAIN cRecv[i].calls : cRecv[i].calls[k].materializer = "rollback"}

\* the optimistic applies that succeeded under clientId id
AppliesOf(id) == {k \in DOMAIN cOnCommitLog : cOnCommitLog[k].clientId = id}

\* C32: rollback is only invoked by a receive call whose clientId was
\* inserted into pending by a successful optimistic apply made before the
\* call, and at most once per optimistic apply, whatever the interleaving
\* of receive calls
C32_RollbackOncePerApply ==
    \A id \in {NoId} \cup MintIds \cup ProtoKeys :
        /\ \A i \in RollbacksOf(id) :
            \E k \in AppliesOf(id) : k <= cRecv[i].after
        /\ Cardinality(RollbacksOf(id)) <= Cardinality(AppliesOf(id))

\* C33: a pending entry exists exactly from the drain's insertion after a
\* successful optimistic apply until the first receive call that matches
\* its clientId has finished; a step of a receive call never adds an entry
\* or alters one, and a step of commit or of the drain never removes one
C33_PendingLifetime ==
    /\ [](/\ DOMAIN cPending \subseteq MintIds
          /\ \A id \in MintIds :
                id \in DOMAIN cPending <=> \E k \in AppliesOf(id) : ~Acknowledged(k))
    /\ [][cRecv' # cRecv =>
            /\ DOMAIN cPending' \subseteq DOMAIN cPending
            /\ \A id \in DOMAIN cPending' : cPending'[id] = cPending[id]]_vars
    /\ [][cRecv' = cRecv => DOMAIN cPending \subseteq DOMAIN cPending']_vars

\* C34: on each replica status starts 'idle', changes only once, to
\* 'processing' in the first valid commit, and never returns to 'idle'
\* whatever a materializer or callback does; the drain is forked in that
\* commit and no drain is forked afterwards, also after the drain has ended
C34_StatusNeverReturnsToIdle ==
    /\ sStatus = "idle" /\ cStatus = "idle" /\ sForks = 0 /\ cForks = 0
    /\ [][/\ sStatus' # sStatus =>
                /\ sStatus = "idle" /\ sStatus' = "processing"
                /\ sValidated = <<>> /\ Len(sValidated') = 1
                /\ sForks' = sForks + 1
          /\ cStatus' # cStatus =>
                /\ cStatus = "idle" /\ cStatus' = "processing"
                /\ cValidated = <<>> /\ Len(cValidated') = 1
                /\ cForks' = cForks + 1
          /\ sStatus = "processing" => sStatus' = "processing" /\ sForks' = sForks
          /\ cStatus = "processing" => cStatus' = "processing" /\ cForks' = cForks
          /\ (sValidated = <<>> /\ sValidated' # <<>>) => sStatus' = "processing"
          /\ (cValidated = <<>> /\ cValidated' # <<>>) => cStatus' = "processing"
          /\ cPc = "dead" => cPc' = "dead"]_vars

\* the Server materializer has thrown and the onCommit callback of the
\* Client has thrown, ending its drain; a later valid commit on the Client
\* was queued: both statuses are 'processing' and one drain was forked on
\* each replica
C34_Witness ==
    /\ \E i \in DOMAIN sMatOutcomes : sMatOutcomes[i] = "threw"
    /\ cPc = "dead"
    /\ Len(cValidated) = 2
    /\ Len(cQueue) = 1
    /\ sStatus = "processing"
    /\ cStatus = "processing"
    /\ sForks = 1
    /\ cForks = 1

\* an onCommit invocation has ended by throwing or rejecting
OnCommitThrew == \E i \in DOMAIN cOnCommitOutcomes : cOnCommitOutcomes[i] = "threw"

\* C35: with a fairly scheduled drain whose apply invocations all settle
\* and whose onCommit invocations all return, every validated commit of the
\* Client is eventually dequeued and apply is invoked with it, also when
\* the apply of earlier events threw
C35_ClientDrainLive ==
    \/ <>OnCommitThrew
    \/ \A n \in 1..MaxClientCommits :
        (Len(cValidated) >= n) ~>
            (/\ Len(cApplyLog) >= n
             /\ cApplyLog[n].name = cValidated[n].name
             /\ cApplyLog[n].payload = cValidated[n].payload)

\* the apply of the first event threw, no onCommit has thrown, and apply
\* has been invoked with the second event
C35_Witness ==
    /\ Len(cApplyLog) = 2
    /\ cApplyOutcomes[1] = "threw"
    /\ ~OnCommitThrew
    /\ cApplyLog[2].name = cValidated[2].name

\* the i-th receive call finds the clientId of its argument in pending
\* when it is made, and so treats the acknowledgement as one of an own event
FoundWhenCalled(i) ==
    /\ cRecv'[i].ev.clientId \in DOMAIN cPending
    /\ cRecv'[i].path \in {"retire", "rollback"}

\* C36 as stated: in the wired system every client.receive(c) is called
\* for an acknowledgement of an event this client committed, with a minted
\* c.clientId, and pending contains c.clientId when the call is made
C36_OwnAckFindsPending ==
    [][\A i \in 1..MaxReceives :
        Starts(i) => /\ cRecv'[i].ev.clientId \in MintIds
                     /\ cRecv'[i].ev = sAcks'[i]
                     /\ FoundWhenCalled(i)]_vars

\* C36 amended: in the wired system the i-th client.receive(c) call carries
\* the acknowledgement of the i-th event passed to onCommit, and pending
\* contains c.clientId when the call is made provided no earlier event of
\* this client was given the same clientId
C36_OwnAckFindsPendingWhenIdFresh ==
    [][\A i \in 1..MaxReceives :
        Starts(i) =>
            /\ cRecv'[i].ev.clientId \in MintIds
            /\ cRecv'[i].ev = sAcks'[i]
            /\ i \in DOMAIN cOnCommitLog
            /\ cRecv'[i].ev.clientId = cOnCommitLog[i].clientId
            /\ cRecv'[i].ev.name = cOnCommitLog[i].name
            /\ (\A j \in 1..(i - 1) : cOnCommitLog[j].clientId # cOnCommitLog[i].clientId)
                    => FoundWhenCalled(i)]_vars

\* the second event of the client was rejected by the server under a
\* clientId of its own, and the receive call carrying its error
\* acknowledgement found the entry and invoked rollback
C36_Witness ==
    /\ Len(cOnCommitLog) = 2
    /\ cOnCommitLog[1].clientId # cOnCommitLog[2].clientId
    /\ cRecv[1].path = "retire"
    /\ cRecv[2].path = "rollback"
    /\ cRecv[2].ev = ErrorAck(cOnCommitLog[2])

\* the receive calls made since the k-th onCommit invocation started that
\* carried a success acknowledgement with that event's clientId
SuccessAcksOf(k) ==
    {i \in 1..MaxReceives :
        /\ cRecv[i].pc # "idle"
        /\ cRecv[i].after >= k
        /\ ~cRecv[i].ev.error
        /\ cRecv[i].ev.clientId = cOnCommitLog[k].clientId}

\* the receive calls made since the k-th onCommit invocation started that
\* carried that event's clientId
AcksOf(k) ==
    {i \in 1..MaxReceives :
        /\ cRecv[i].pc # "idle"
        /\ cRecv[i].after >= k
        /\ cRecv[i].ev.clientId = cOnCommitLog[k].clientId}

\* C37 as stated: an event submitted through client.commit is applied at
\* most once: the drain invokes apply once for it, and no receive call that
\* carries a success acknowledgement of it invokes apply, however many
\* times the acknowledgement is delivered
C37_AppliedAtMostOnce ==
    /\ Len(cApplyLog) <= Len(cValidated)
    /\ \A k \in DOMAIN cOnCommitLog :
        \A i \in SuccessAcksOf(k) : cRecv[i].path # "apply"

\* C37 amended: the drain invokes apply once for each committed event, and
\* the first receive call that carries the event's clientId does not apply
\* it again, provided no other event of this client was given the same
\* clientId; a success acknowledgement delivered after the entry was
\* removed runs apply again
C37_FirstAckDoesNotApply ==
    /\ Len(cApplyLog) <= Len(cValidated)
    /\ \A k \in DOMAIN cOnCommitLog :
        (\A j \in DOMAIN cOnCommitLog :
            j # k => cOnCommitLog[j].clientId # cOnCommitLog[k].clientId)
        => \A i \in AcksOf(k) :
            (\A j \in AcksOf(k) : i <= j) => cRecv[i].path \in {"retire", "rollback"}

\* the success acknowledgement of a committed event was delivered, found
\* the entry and retired it without invoking apply
C37_Witness ==
    /\ Len(cOnCommitLog) >= 1
    /\ cRecv[1].pc = "resolved"
    /\ cRecv[1].path = "retire"
    /\ cRecv[1].after >= 1
    /\ cRecv[1].ev.clientId = cOnCommitLog[1].clientId
    /\ cRecv[1].calls = <<>>
    /\ cOnCommitLog[1].clientId \notin DOMAIN cPending

\* the receive call i removes its entry in this step: a success
\* acknowledgement found in pending when the call is made, or the rollback
\* of an error acknowledgement returning
Removes(i) ==
    \/ Starts(i) /\ cRecv'[i].path = "retire"
    \/ cRecv[i].pc = "rollback" /\ cRecv'[i].pc = "resolved"

\* the drain inserts the entry of the event it applied in this step
Inserts == Len(cOnCommitLog') > Len(cOnCommitLog)

PathOf(pending, c) ==
    IF InPending(pending, c.clientId)
    THEN IF c.error THEN "rollback" ELSE "retire"
    ELSE IF c.error THEN "ignore" ELSE "apply"

\* C39: the sequence of the Client is the one given in the options and no
\* step of commit, of the drain or of receive changes it; receive decides
\* from pending and the error flag of its argument alone, whatever the
\* sequence of the acknowledgement and the sequence of the Client are
C39_ClientSequenceUnused ==
    /\ [](cSequence = cOptSequence /\ cOptSequence = ClientOptSequence)
    /\ [][/\ cSequence' = cSequence
          /\ \A i \in 1..MaxReceives :
                Starts(i) => cRecv'[i].path = PathOf(cPending, cRecv'[i].ev)]_vars

\* a commit was applied and its success acknowledgement, whose sequence
\* differs from the sequence of the Client, was retired; an error
\* acknowledgement was delivered too; the sequence is still the one of the
\* options
C39_Witness ==
    /\ Len(cOnCommitLog) >= 1
    /\ cRecv[1].pc = "resolved"
    /\ cRecv[1].path = "retire"
    /\ cRecv[1].ev.sequence # cSequence
    /\ cRecv[2].pc # "idle"
    /\ cRecv[2].ev.error
    /\ cSequence = ClientOptSequence

====
